---- MODULE Spec2Model ----
(***************************************************************************)
(* Account and access-key identity store (AccountSpaceFS).                 *)
(*                                                                         *)
(* The store keeps one JSON file per account under accounts/<name>.json    *)
(* and one symbolic link per access key under access_keys/<key>.symlink.   *)
(* Every handler of the class is one action; its guards are the checks the *)
(* handler makes, in the order it makes them.                              *)
(***************************************************************************)
EXTENDS Integers, Sequences, FiniteSets, TLC

\* ---------------------------------------------------------------- bounds
\* account ids are handed out by a counter; no id above MaxId is generated
MaxId == 4
\* number of events (calls, master-key rotations) a behaviour may contain
MaxOps == 2
\* number of calls in a behaviour made of update_access_key and update_user only
MaxRenameOps == 3

\* ------------------------------------------------------------- constants
UNDEF == "undefined"

\* file names that may appear under accounts/ (without the .json suffix)
RootNames == {"r1", "r2"}
UserNames == {"u1", "u2"}
Names == RootNames \cup UserNames

\* identifiers the credential generator may return
Keys == {"k1", "k2", "k3", "k4"}

IAM_DEFAULT_PATH == "/"
IamPaths == {UNDEF, "/div/"}
\* values of iam_path_prefix a list_users request may carry
IamPathPrefixes == {UNDEF, "/", "/div/", "/di", "/none/"}

MAX_NUMBER_OF_ACCESS_KEYS == 2

access_key_status_enum == [ACTIVE |-> "Active", INACTIVE |-> "Inactive"]
identity_enum == [ROOT_ACCOUNT |-> "ROOT_ACCOUNT", USER |-> "USER"]
entity_enum == [USER |-> "USER", ACCESS_KEY |-> "ACCESS_KEY"]

Statuses == {access_key_status_enum.ACTIVE, access_key_status_enum.INACTIVE}

\* ------------------------------------------------------------ error table
\* The members of IamError and the code each carries.
IamError ==
    [ AccessDeniedException |-> "AccessDeniedException",
      ValidationError       |-> "ValidationError",
      ConcurrentModification |-> "EntityAlreadyExists",
      EntityAlreadyExists   |-> "EntityAlreadyExists",
      InvalidInput          |-> "EntityAlreadyExists",
      LimitExceeded         |-> "EntityAlreadyExists",
      NoSuchEntity          |-> "NoSuchEntity",
      ServiceFailure        |-> "ServiceFailure",
      DeleteConflict        |-> "DeleteConflict" ]

\* const { code, http_code, type } = IamError.<member>; throw new IamError({code, ...})
\* Destructuring a member the table does not have throws a TypeError, which
\* carries no IAM code.
ThrowIamError(member) ==
    IF member \in DOMAIN IamError THEN IamError[member] ELSE "TypeError"

OK == "ok"

\* ------------------------------------------------------------------ state
VARIABLES
    accounts,   \* accounts/<name>.json : name of each file present -> account record
    symlinks,   \* access_keys/<key>.symlink : key of each link present -> target account name
    next_id,    \* how many ids generate_id() has handed out, plus one
    active_mk,  \* which master key is active (position in MasterKeys)
    last,       \* the call whose reply the caller has not yet taken: operation,
                \* requester, parameters, outcome (NoCall when there is none)
    all_ok,     \* every call so far returned without throwing
    ops,        \* number of events so far
    last_rename, \* the last update_user that changed a username: the old and
                \* the new name, the record the old file held, and the number
                \* of the event (NoRename when there was none)
    procs       \* the create_access_key calls in flight, one per worker, each
                \* with the await it is suspended at

vars == <<accounts, symlinks, next_id, active_mk, last, all_ok, ops, last_rename, procs>>

\* ------------------------------------------------------------ data model
\* nsfs_account_config of the two bootstrapped root accounts: one carries
\* uid/gid, the other a distinguished name.
RootNsfsConfig(name) ==
    IF name = "r1"
    THEN [distinguished_name |-> UNDEF, uid |-> "1001", gid |-> "1001",
          new_buckets_path |-> "/buckets1/", fs_backend |-> UNDEF]
    ELSE [distinguished_name |-> "dn2", uid |-> UNDEF, gid |-> UNDEF,
          new_buckets_path |-> "/buckets2/", fs_backend |-> "GPFS"]

\* the ids generate_id() returns, in the order it returns them
Ids == <<"id1", "id2", "id3", "id4", "id5", "id6", "id7">>
generate_id(n) == Ids[n]

\* the master keys the manager activates, in order of rotation
MasterKeys == <<"mk1", "mk2", "mk3", "mk4", "mk5">>
active_master_key(n) == MasterKeys[n]

\* new Date().toISOString() at the n-th event; the bootstrap ran before them all
Dates == <<"d1", "d2", "d3", "d4", "d5">>
BootstrapDate == "d0"
now(n) == Dates[n + 1]

RootId(name) == IF name = "r1" THEN Ids[1] ELSE Ids[2]
RootKey(name) == IF name = "r1" THEN "k1" ELSE "k2"

\* mkm.encrypt(secret, master_key_id): the ciphertext remembers what was
\* encrypted and under which master key.
mkm_encrypt(secret_key, master_key_id) == [pt |-> secret_key, mk |-> master_key_id]

\* mkm.decrypt(ciphertext, master_key_id): the plaintext under the key that
\* produced the ciphertext, and unusable bytes under any other key.
mkm_decrypt(encrypted_secret_key, master_key_id) ==
    IF encrypted_secret_key.mk = master_key_id THEN encrypted_secret_key.pt ELSE "garbled"

\* the secret the credential generator returns together with identifier k
SecretOf(k) ==
    CASE k = "k1" -> "s1" [] k = "k2" -> "s2" [] k = "k3" -> "s3" [] OTHER -> "s4"

\* A root account as the bootstrap (outside this class) writes it: one access
\* key, no status, no creator_identity, no iam_path.
RootAccount(name, owner) ==
    [ _id |-> RootId(name), name |-> name, email |-> name,
      creation_date |-> BootstrapDate,
      owner |-> owner, creator |-> UNDEF, iam_path |-> UNDEF,
      master_key_id |-> MasterKeys[1],
      allow_bucket_creation |-> TRUE, force_md5_etag |-> UNDEF,
      access_keys |-> << [ access_key |-> RootKey(name),
                           encrypted_secret_key |-> mkm_encrypt(SecretOf(RootKey(name)), MasterKeys[1]),
                           creation_date |-> UNDEF,
                           status |-> UNDEF, creator_identity |-> UNDEF,
                           master_key_id |-> UNDEF ] >>,
      nsfs_account_config |-> RootNsfsConfig(name) ]

\* ------------------------------------------------------- path resolution
\* _get_account_config_path(name): accounts/<name>.json, named by <name>
_get_account_config_path(name) == name

\* native_fs_utils.is_path_exists on an account path
is_path_exists(accs, account_config_path) ==
    account_config_path \in DOMAIN accs

\* native_fs_utils.is_path_exists on a symlink path follows the link: a
\* missing link and a link whose target file is missing are both "not there".
is_symlink_path_exists(accs, syms, access_key_id) ==
    /\ access_key_id \in DOMAIN syms
    /\ is_path_exists(accs, syms[access_key_id])

\* the file at path now holds data (whether or not it existed)
WriteFile(accs, path, data) ==
    [ n \in DOMAIN accs \cup {path} |-> IF n = path THEN data ELSE accs[n] ]

\* native_fs_utils.create_config_file (the caller has checked the path is free)
create_config_file(accs, account_config_path, data) ==
    WriteFile(accs, account_config_path, data)

\* native_fs_utils.update_config_file: write a temporary file, rename it over
\* the path
update_config_file(accs, account_config_path, data) ==
    WriteFile(accs, account_config_path, data)

\* native_fs_utils.delete_config_file
delete_config_file(accs, account_config_path) ==
    [ n \in DOMAIN accs \ {account_config_path} |-> accs[n] ]

\* nb_native().fs.symlink(target, link path)
fs_symlink(syms, target_name, access_key_id) ==
    [ k \in DOMAIN syms \cup {access_key_id} |->
        IF k = access_key_id THEN target_name ELSE syms[k] ]

\* nb_native().fs.unlink(link path)
fs_unlink(syms, access_key_id) ==
    [ k \in DOMAIN syms \ {access_key_id} |-> syms[k] ]

\* a validation that accepts every record
schema_accepts_all(account) == TRUE

\* nsfs_schema_utils.validate_account_schema against account_schema: the
\* required members are present and nsfs_account_config matches exactly one
\* of its two shapes.
validate_account_schema(account) ==
    /\ account._id # UNDEF /\ account.name # UNDEF /\ account.email # UNDEF
    /\ account.master_key_id # UNDEF /\ account.creation_date # UNDEF
    /\ account.allow_bucket_creation \in BOOLEAN
    /\ \A i \in DOMAIN account.access_keys :
          /\ account.access_keys[i].access_key # UNDEF
          /\ "encrypted_secret_key" \in DOMAIN account.access_keys[i]
    /\ LET c == account.nsfs_account_config
           shape_ids == c.uid # UNDEF /\ c.gid # UNDEF
           shape_dn  == c.distinguished_name # UNDEF
       IN (shape_ids /\ ~shape_dn) \/ (shape_dn /\ ~shape_ids)

\* -------------------------------------------------- authorization helpers
_check_root_account(account) ==
    account.owner = UNDEF \/ account.owner = account._id

_check_root_account_owns_user(root_account, user_account) ==
    IF user_account.owner = UNDEF THEN FALSE
    ELSE root_account._id = user_account.owner

\* _throw_access_denied_error: builds the message, then takes code, http_code
\* and type from IamError.AccessDenied
_throw_access_denied_error == ThrowIamError("AccessDenied")

\* _check_root_account_or_user: who the requester is for the access-key
\* operations. requester.name is UNDEF when neither branch is taken.
_check_root_account_or_user(requesting_account, username) ==
    IF _check_root_account(requesting_account)
    THEN [ is_root_account_or_user_on_itself |-> TRUE,
           requester |-> [name |-> requesting_account.name,
                          identity |-> identity_enum.ROOT_ACCOUNT] ]
    ELSE IF username = UNDEF \/ requesting_account.name = username
    THEN [ is_root_account_or_user_on_itself |-> TRUE,
           requester |-> [name |-> IF username # UNDEF THEN username
                                   ELSE requesting_account.name,
                          identity |-> identity_enum.USER] ]
    ELSE [ is_root_account_or_user_on_itself |-> FALSE,
           requester |-> [name |-> UNDEF, identity |-> UNDEF] ]

\* _check_if_requested_account_same_as_requesting_account: TRUE when both
\* accounts are under the same root (owner || _id)
same_root_account(requesting_account, requested_account) ==
    LET root_account_id_requesting_account ==
            IF requesting_account.owner # UNDEF THEN requesting_account.owner
            ELSE requesting_account._id
        root_account_id_config_data ==
            IF requested_account.owner # UNDEF THEN requested_account.owner
            ELSE requested_account._id
    IN root_account_id_requesting_account = root_account_id_config_data

\* _.findIndex(account_config.access_keys, item => item.access_key === key);
\* 0 stands for "not found" (lodash's -1), positions count from 1.
_get_access_key(account_config, access_key_to_find) ==
    LET hits == { i \in DOMAIN account_config.access_keys :
                    account_config.access_keys[i].access_key = access_key_to_find }
    IN IF hits = {} THEN 0 ELSE CHOOSE i \in hits : \A j \in hits : i <= j

\* _get_available_index_for_access_key (positions count from 1)
_get_available_index_for_access_key(access_keys) ==
    IF Len(access_keys) = 0 THEN 1 ELSE 2

\* the keys _clean_account_cache invalidates: every key of the record
_clean_account_cache(requested_account) ==
    { requested_account.access_keys[i].access_key : i \in DOMAIN requested_account.access_keys }

\* Array.prototype.splice(index, 1) with index -1 removes the last element
splice(seq, index) ==
    LET at == IF index = 0 THEN Len(seq) ELSE index
    IN [ i \in 1 .. (IF Len(seq) = 0 THEN 0 ELSE Len(seq) - 1) |->
            IF i < at THEN seq[i] ELSE seq[i + 1] ]

\* requested_account.access_keys[index] = entry
set_at(seq, index, entry) ==
    [ i \in 1 .. (IF index > Len(seq) THEN index ELSE Len(seq)) |->
        IF i = index THEN entry ELSE seq[i] ]

\* a check that the requested user belongs to the requesting root which
\* lets every user through
owned_by_anyone(requesting_account, requested_account) == TRUE

\* a check of the username which finds every name free
name_is_free(accs, username) == TRUE

\* a check of the access keys before deletion which lets every user through
keys_never_block(account_to_delete) == TRUE

\* ---------------------------------------------------------------- checks
\* Each check is TRUE when the handler goes on and FALSE when it throws.
_check_if_requesting_account_is_root_account(requesting_account) ==
    _check_root_account(requesting_account)

_check_if_requested_account_is_root_account(requested_account) ==
    ~_check_root_account(requested_account)

_check_username_already_exists(accs, username) ==
    ~is_path_exists(accs, _get_account_config_path(username))

_check_if_account_config_file_exists(accs, username) ==
    is_path_exists(accs, _get_account_config_path(username))

_check_if_user_is_owned_by_root_account(requesting_account, requested_account) ==
    _check_root_account_owns_user(requesting_account, requested_account)

_check_if_user_does_not_have_access_keys_before_deletion(account_to_delete) ==
    Len(account_to_delete.access_keys) = 0

_check_if_requesting_account_is_root_account_or_user_om_himself(requesting_account, username) ==
    _check_root_account_or_user(requesting_account, username).is_root_account_or_user_on_itself

_check_number_of_access_key_array(requested_account) ==
    ~(Len(requested_account.access_keys) >= MAX_NUMBER_OF_ACCESS_KEYS)

_check_if_account_exists_by_access_key_symlink(accs, syms, access_key) ==
    is_symlink_path_exists(accs, syms, access_key)

_check_if_requested_account_same_as_requesting_account(requesting_account, requested_account) ==
    same_root_account(requesting_account, requested_account)

\* params.username ?? requester.name
name_or_requester(username, requester) ==
    IF username # UNDEF THEN username ELSE requester.name

\* --------------------------------------------------------------- outcomes
\* What a handler leaves behind: the code of the error it threw (OK when it
\* returned), the two directories, and the keys it asked the cache to drop.
\* the reply of a handler that returns no listing and no credentials, and the
\* members of a reply that the handlers below fill in
NoReply ==
    [ members |-> << >>, is_truncated |-> FALSE, username |-> UNDEF,
      access_key |-> UNDEF, status |-> UNDEF, create_date |-> UNDEF,
      secret_key |-> UNDEF ]

Thrown(code) ==
    [code |-> code, accounts |-> accounts, symlinks |-> symlinks, inv |-> {},
     ret |-> NoReply]

Returned(accs, syms, inv) ==
    [code |-> OK, accounts |-> accs, symlinks |-> syms, inv |-> inv, ret |-> NoReply]

\* the error validate_account_schema throws
SchemaError == ThrowIamError("ValidationError")

\* ---------------------------------------------------------- user handlers
\* user defaults that take master_key_id from the master-key manager
new_user_under_active_master_key(requesting_account, username, iam_path) ==
    [ _id |-> generate_id(next_id),
      name |-> username,
      email |-> username,
      creation_date |-> now(ops),
      owner |-> requesting_account._id,
      creator |-> requesting_account._id,
      iam_path |-> IF iam_path # UNDEF THEN iam_path ELSE IAM_DEFAULT_PATH,
      master_key_id |-> active_master_key(active_mk),
      allow_bucket_creation |-> requesting_account.allow_bucket_creation,
      force_md5_etag |-> requesting_account.force_md5_etag,
      access_keys |-> << >>,
      nsfs_account_config |-> requesting_account.nsfs_account_config ]

_new_user_defaults(requesting_account, username, iam_path) ==
    LET distinguished_name == requesting_account.nsfs_account_config.distinguished_name
    IN [ _id |-> generate_id(next_id),
         name |-> username,
         email |-> username,
         creation_date |-> now(ops),
         owner |-> requesting_account._id,
         creator |-> requesting_account._id,
         iam_path |-> IF iam_path # UNDEF THEN iam_path ELSE IAM_DEFAULT_PATH,
         master_key_id |-> requesting_account.master_key_id,
         allow_bucket_creation |-> requesting_account.allow_bucket_creation,
         force_md5_etag |-> requesting_account.force_md5_etag,
         access_keys |-> << >>,
         nsfs_account_config |->
            [ distinguished_name |-> distinguished_name,
              uid |-> IF distinguished_name # UNDEF THEN UNDEF
                      ELSE requesting_account.nsfs_account_config.uid,
              gid |-> IF distinguished_name # UNDEF THEN UNDEF
                      ELSE requesting_account.nsfs_account_config.gid,
              new_buckets_path |-> requesting_account.nsfs_account_config.new_buckets_path,
              fs_backend |-> requesting_account.nsfs_account_config.fs_backend ] ]

\* _copy_data_from_requesting_account_to_account_config
_copy_data_from_requesting_account_to_account_config(requesting_account, username, iam_path) ==
    LET created_account == _new_user_defaults(requesting_account, username, iam_path)
    IN IF ~validate_account_schema(created_account) THEN Thrown(SchemaError)
       ELSE Returned(create_config_file(accounts, _get_account_config_path(username),
                                        created_account),
                     symlinks, {})

create_user(requesting_account, username, iam_path) ==
    IF ~_check_if_requesting_account_is_root_account(requesting_account)
    THEN Thrown(_throw_access_denied_error)
    ELSE IF ~_check_username_already_exists(accounts, username)
    THEN Thrown(ThrowIamError("EntityAlreadyExists"))
    ELSE _copy_data_from_requesting_account_to_account_config(requesting_account,
                                                              username, iam_path)

get_user(requesting_account, params_username) ==
    LET requester == _check_root_account_or_user(requesting_account, params_username).requester
        username == name_or_requester(params_username, requester)
    IN IF ~_check_if_requesting_account_is_root_account(requesting_account)
       THEN Thrown(_throw_access_denied_error)
       ELSE IF ~_check_if_account_config_file_exists(accounts, username)
       THEN Thrown(ThrowIamError("NoSuchEntity"))
       ELSE LET account_to_get == accounts[_get_account_config_path(username)]
            IN IF ~_check_if_requested_account_is_root_account(account_to_get)
               THEN Thrown(_throw_access_denied_error)
               ELSE IF ~_check_if_user_is_owned_by_root_account(requesting_account, account_to_get)
               THEN Thrown(ThrowIamError("NoSuchEntity"))
               ELSE Returned(accounts, symlinks, {})

\* a rename that does not look whether the new name is taken
rename_over_existing_name(username, new_username, account_to_update) ==
    LET renamed == [account_to_update EXCEPT !.name = new_username,
                                              !.email = new_username]
    IN Returned(delete_config_file(
                    create_config_file(accounts, _get_account_config_path(new_username),
                                       renamed),
                    _get_account_config_path(username)),
                symlinks, _clean_account_cache(renamed))

\* a rename that writes the file under the new name and leaves the old one
rename_keeping_old_file(username, new_username, account_to_update) ==
    IF ~_check_username_already_exists(accounts, new_username)
    THEN Thrown(ThrowIamError("EntityAlreadyExists"))
    ELSE LET renamed == [account_to_update EXCEPT !.name = new_username,
                                                   !.email = new_username]
         IN Returned(create_config_file(accounts, _get_account_config_path(new_username),
                                        renamed),
                     symlinks, _clean_account_cache(renamed))

_update_account_config_new_username(username, new_username, account_to_update) ==
    IF ~_check_username_already_exists(accounts, new_username)
    THEN Thrown(ThrowIamError("EntityAlreadyExists"))
    ELSE LET renamed == [account_to_update EXCEPT !.name = new_username,
                                                   !.email = new_username]
         IN IF ~validate_account_schema(renamed) THEN Thrown(SchemaError)
            ELSE Returned(
                    delete_config_file(
                        create_config_file(accounts, _get_account_config_path(new_username),
                                           renamed),
                        _get_account_config_path(username)),
                    symlinks,
                    _clean_account_cache(renamed))

update_user(requesting_account, username, new_username, new_iam_path) ==
    IF ~_check_if_requesting_account_is_root_account(requesting_account)
    THEN Thrown(_throw_access_denied_error)
    ELSE IF ~_check_if_account_config_file_exists(accounts, username)
    THEN Thrown(ThrowIamError("NoSuchEntity"))
    ELSE LET read == accounts[_get_account_config_path(username)]
         IN IF ~_check_if_requested_account_is_root_account(read)
            THEN Thrown(_throw_access_denied_error)
            ELSE IF ~_check_if_user_is_owned_by_root_account(requesting_account, read)
            THEN Thrown(ThrowIamError("NoSuchEntity"))
            ELSE LET is_username_update == new_username # UNDEF /\ new_username # username
                     account_to_update ==
                        IF new_iam_path # UNDEF THEN [read EXCEPT !.iam_path = new_iam_path]
                        ELSE read
                 IN IF is_username_update
                    THEN _update_account_config_new_username(username, new_username,
                                                             account_to_update)
                    ELSE IF ~validate_account_schema(account_to_update)
                    THEN Thrown(SchemaError)
                    ELSE Returned(update_config_file(accounts,
                                        _get_account_config_path(username), account_to_update),
                                  symlinks,
                                  _clean_account_cache(account_to_update))

\* a delete_user that looks for access keys only after it deleted the file
delete_user_then_check(requesting_account, username) ==
    IF ~_check_if_requesting_account_is_root_account(requesting_account)
    THEN Thrown(_throw_access_denied_error)
    ELSE IF ~_check_if_account_config_file_exists(accounts, username)
    THEN Thrown(ThrowIamError("NoSuchEntity"))
    ELSE LET account_to_delete == accounts[_get_account_config_path(username)]
             deleted == delete_config_file(accounts, _get_account_config_path(username))
         IN IF ~_check_if_requested_account_is_root_account(account_to_delete)
            THEN Thrown(_throw_access_denied_error)
            ELSE IF ~_check_if_user_is_owned_by_root_account(requesting_account, account_to_delete)
            THEN Thrown(ThrowIamError("NoSuchEntity"))
            ELSE IF ~_check_if_user_does_not_have_access_keys_before_deletion(account_to_delete)
            THEN [Thrown(ThrowIamError("DeleteConflict")) EXCEPT !.accounts = deleted]
            ELSE Returned(deleted, symlinks, {})

delete_user(requesting_account, username) ==
    IF ~_check_if_requesting_account_is_root_account(requesting_account)
    THEN Thrown(_throw_access_denied_error)
    ELSE IF ~_check_if_account_config_file_exists(accounts, username)
    THEN Thrown(ThrowIamError("NoSuchEntity"))
    ELSE LET account_to_delete == accounts[_get_account_config_path(username)]
         IN IF ~_check_if_requested_account_is_root_account(account_to_delete)
            THEN Thrown(_throw_access_denied_error)
            ELSE IF ~_check_if_user_is_owned_by_root_account(requesting_account, account_to_delete)
            THEN Thrown(ThrowIamError("NoSuchEntity"))
            ELSE IF ~_check_if_user_does_not_have_access_keys_before_deletion(account_to_delete)
            THEN Thrown(ThrowIamError("DeleteConflict"))
            ELSE Returned(delete_config_file(accounts, _get_account_config_path(username)),
                          symlinks, {})

\* String.prototype.localeCompare on the names and key identifiers in use:
\* negative, zero or positive as a sorts before, with or after b
Collation == <<"k1", "k2", "k3", "k4", "r1", "r2", "u1", "u2">>
localeCompare(a, b) ==
    (CHOOSE i \in DOMAIN Collation : Collation[i] = a)
        - (CHOOSE i \in DOMAIN Collation : Collation[i] = b)

\* the characters of the paths in use
Chars(str) ==
    CASE str = "/" -> <<"/">>
      [] str = "/div/" -> <<"/", "d", "i", "v", "/">>
      [] str = "/di" -> <<"/", "d", "i">>
      [] str = "/none/" -> <<"/", "n", "o", "n", "e", "/">>

\* String.prototype.startsWith
startsWith(str, prefix) ==
    /\ Len(Chars(prefix)) <= Len(Chars(str))
    /\ SubSeq(Chars(str), 1, Len(Chars(prefix))) = Chars(prefix)

\* iam_utils.check_iam_path_was_set: a path was passed and it is not the default
check_iam_path_was_set(iam_path) ==
    iam_path # UNDEF /\ iam_path # IAM_DEFAULT_PATH

\* fs.readdir(accounts_dir): the account files, here in the order of their names
readdir(accs) == SelectSeq(Collation, LAMBDA name : name \in DOMAIN accs)

\* a listing of every account file, owned by the requester or not
list_all_config_files(requesting_account, iam_path_prefix) ==
    LET entries == readdir(accounts)
    IN [ i \in DOMAIN entries |->
            LET account_data == accounts[entries[i]]
            IN [ user_id |-> account_data._id,
                 iam_path |-> IF account_data.iam_path # UNDEF THEN account_data.iam_path
                              ELSE IAM_DEFAULT_PATH,
                 username |-> account_data.name,
                 create_date |-> account_data.creation_date ] ]

\* _list_config_files_for_users: the users of the requesting root account, and
\* of them those under iam_path_prefix when one was set. The arn and the
\* synthetic password_last_used of a member are left out.
_list_config_files_for_users(requesting_account, iam_path_prefix) ==
    LET should_filter_by_prefix == check_iam_path_was_set(iam_path_prefix)
        listed(account_data) ==
            /\ _check_root_account_owns_user(requesting_account, account_data)
            /\ should_filter_by_prefix =>
                  /\ account_data.iam_path # UNDEF
                  /\ startsWith(account_data.iam_path, iam_path_prefix)
        entries == SelectSeq(readdir(accounts), LAMBDA name : listed(accounts[name]))
    IN [ i \in DOMAIN entries |->
            LET account_data == accounts[entries[i]]
            IN [ user_id |-> account_data._id,
                 iam_path |-> IF account_data.iam_path # UNDEF THEN account_data.iam_path
                              ELSE IAM_DEFAULT_PATH,
                 username |-> account_data.name,
                 create_date |-> account_data.creation_date ] ]

list_users(requesting_account, iam_path_prefix) ==
    IF ~_check_if_requesting_account_is_root_account(requesting_account)
    THEN Thrown(_throw_access_denied_error)
    ELSE LET members == SortSeq(
                _list_config_files_for_users(requesting_account, iam_path_prefix),
                LAMBDA a, b : localeCompare(a.username, b.username) < 0)
         IN [ Returned(accounts, symlinks, {})
              EXCEPT !.ret = [ NoReply EXCEPT !.members = members,
                                              !.is_truncated = FALSE ] ]

\* ---------------------------------------------------- access-key handlers
\* an _encrypt_secret_key that hands the secret back as it is, under no key
secret_key_as_it_is(secret_key) ==
    [ encrypted_secret_key |-> [pt |-> secret_key, mk |-> UNDEF],
      master_key_id |-> active_master_key(active_mk) ]

\* _encrypt_secret_key: encrypt under the active master key
_encrypt_secret_key(secret_key) ==
    [ encrypted_secret_key |-> mkm_encrypt(secret_key, active_master_key(active_mk)),
      master_key_id |-> active_master_key(active_mk) ]

\* _decrypt_encrypted_secret_key: decrypt under the active master key
_decrypt_encrypted_secret_key(encrypted_secret_key) ==
    [ secret_key |-> mkm_decrypt(encrypted_secret_key, active_master_key(active_mk)),
      master_key_id |-> active_master_key(active_mk) ]

\* a create_access_key that always writes the new key at index 0
new_access_key_slot_first(requested_account) == 1

\* a create_access_key that appends the new key without looking at the quota
new_access_key_slot_push(requested_account) ==
    Len(requested_account.access_keys) + 1

\* _check_number_of_access_key_array, then _get_available_index_for_access_key:
\* the position the new key is written at, 0 when the quota check throws
new_access_key_slot(requested_account) ==
    IF ~_check_number_of_access_key_array(requested_account) THEN 0
    ELSE _get_available_index_for_access_key(requested_account.access_keys)

\* create_access_key up to the account record it is about to write:
\* code is OK and account/path say what to write, or code is the error thrown
create_access_key_prepare(accs, requesting_account, username, generated_access_key) ==
    LET gate == _check_root_account_or_user(requesting_account, username)
        requester == gate.requester
        name_for_access_key == name_or_requester(username, requester)
        requested_account_config_path == _get_account_config_path(name_for_access_key)
        none == [code |-> OK, path |-> UNDEF, account |-> requesting_account]
    IN IF ~_check_if_requesting_account_is_root_account_or_user_om_himself(
                requesting_account, username)
       THEN [none EXCEPT !.code = _throw_access_denied_error]
       ELSE IF ~_check_if_account_config_file_exists(accs, name_for_access_key)
       THEN [none EXCEPT !.code = ThrowIamError("NoSuchEntity")]
       ELSE LET requested_account == accs[requested_account_config_path]
            IN IF /\ requester.identity = identity_enum.ROOT_ACCOUNT
                  /\ ~_check_if_user_is_owned_by_root_account(requesting_account,
                                                              requested_account)
               THEN [none EXCEPT !.code = ThrowIamError("NoSuchEntity")]
               ELSE IF new_access_key_slot(requested_account) = 0
               THEN [none EXCEPT !.code = ThrowIamError("LimitExceeded")]
               ELSE LET index_for_access_key == new_access_key_slot(requested_account)
                        enc == _encrypt_secret_key(SecretOf(generated_access_key))
                        entry == [ access_key |-> generated_access_key,
                                   encrypted_secret_key |-> enc.encrypted_secret_key,
                                   creation_date |-> now(ops),
                                   status |-> access_key_status_enum.ACTIVE,
                                   creator_identity |-> requester.identity,
                                   master_key_id |-> enc.master_key_id ]
                        written == [requested_account EXCEPT
                                      !.access_keys = set_at(@, index_for_access_key, entry),
                                      !.master_key_id = enc.master_key_id]
                    IN IF ~validate_account_schema(written)
                       THEN [none EXCEPT !.code = SchemaError]
                       ELSE [code |-> OK, path |-> requested_account_config_path,
                             account |-> written]

\* the last step of create_access_key: link access_keys/<key>.symlink to
\* ../accounts/<requested_account.name>.json; EEXIST when the link is there
create_access_key_link(accs, syms, requested_account, generated_access_key) ==
    IF generated_access_key \in DOMAIN syms
    THEN [code |-> "EEXIST", accounts |-> accs, symlinks |-> syms, inv |-> {},
          ret |-> NoReply]
    ELSE LET index_for_access_key == _get_access_key(requested_account, generated_access_key)
             created == requested_account.access_keys[index_for_access_key]
         IN [ Returned(accs, fs_symlink(syms, requested_account.name, generated_access_key),
                       {})
              EXCEPT !.ret = [ NoReply EXCEPT !.username = requested_account.name,
                                              !.access_key = created.access_key,
                                              !.create_date = created.creation_date,
                                              !.status = created.status,
                                              !.secret_key = SecretOf(generated_access_key) ] ]

create_access_key(requesting_account, username, generated_access_key) ==
    LET p == create_access_key_prepare(accounts, requesting_account, username,
                                       generated_access_key)
    IN IF p.code # OK THEN Thrown(p.code)
       ELSE create_access_key_link(update_config_file(accounts, p.path, p.account),
                                   symlinks, p.account, generated_access_key)

get_access_key_last_used(requesting_account, access_key_id) ==
    IF ~_check_if_account_exists_by_access_key_symlink(accounts, symlinks, access_key_id)
    THEN Thrown(_throw_access_denied_error)
    ELSE LET requested_account == accounts[symlinks[access_key_id]]
         IN IF ~_check_if_requested_account_same_as_requesting_account(
                    requesting_account, requested_account)
            THEN Thrown(_throw_access_denied_error)
            ELSE Returned(accounts, symlinks, {})

\* an update_access_key that takes every status for a new one
status_always_changed(access_key, status) == FALSE

\* access_key.status === params.status: the status was not changed
status_was_not_changed(access_key, status) == access_key.status = status

update_access_key(requesting_account, username, access_key_id, status) ==
    LET requester == _check_root_account_or_user(requesting_account, username).requester
    IN IF ~_check_if_requesting_account_is_root_account_or_user_om_himself(
                requesting_account, username)
       THEN Thrown(_throw_access_denied_error)
       ELSE IF ~_check_if_account_exists_by_access_key_symlink(accounts, symlinks,
                                                               access_key_id)
       THEN Thrown(_throw_access_denied_error)
       ELSE LET requested_account == accounts[symlinks[access_key_id]]
                index_for_access_key == _get_access_key(requested_account, access_key_id)
            IN IF ~_check_if_requested_account_same_as_requesting_account(
                        requesting_account, requested_account)
               THEN Thrown(_throw_access_denied_error)
               ELSE IF index_for_access_key = 0
               THEN Thrown("TypeError")  \* access_key is undefined: access_key.status throws
               ELSE LET access_key == requested_account.access_keys[index_for_access_key]
                    IN IF status_was_not_changed(access_key, status)
                       THEN Returned(accounts, symlinks, {})
                       ELSE LET dec == _decrypt_encrypted_secret_key(
                                            access_key.encrypted_secret_key)
                                enc == _encrypt_secret_key(dec.secret_key)
                                written == [requested_account EXCEPT
                                    !.access_keys[index_for_access_key] =
                                        [@ EXCEPT !.encrypted_secret_key = enc.encrypted_secret_key,
                                                  !.status = status,
                                                  !.master_key_id = enc.master_key_id],
                                    !.master_key_id = enc.master_key_id]
                                name_for_access_key == name_or_requester(username, requester)
                            IN IF ~validate_account_schema(written)
                               THEN Thrown(SchemaError)
                               ELSE Returned(
                                       update_config_file(accounts,
                                           _get_account_config_path(name_for_access_key),
                                           written),
                                       symlinks,
                                       _clean_account_cache(written))

\* delete_access_key up to the account record it is about to write:
\* code is OK and account/path say what to write, or code is the error thrown
delete_access_key_prepare(accs, syms, requesting_account, username, access_key_id) ==
    LET requester == _check_root_account_or_user(requesting_account, username).requester
        none == [code |-> OK, path |-> UNDEF, account |-> requesting_account]
    IN IF ~_check_if_requesting_account_is_root_account_or_user_om_himself(
                requesting_account, username)
       THEN [none EXCEPT !.code = _throw_access_denied_error]
       ELSE IF ~_check_if_account_exists_by_access_key_symlink(accs, syms, access_key_id)
       THEN [none EXCEPT !.code = _throw_access_denied_error]
       ELSE LET requested_account == accs[syms[access_key_id]]
                index_for_access_key == _get_access_key(requested_account, access_key_id)
            IN IF ~_check_if_requested_account_same_as_requesting_account(
                        requesting_account, requested_account)
               THEN [none EXCEPT !.code = _throw_access_denied_error]
               ELSE LET written == [requested_account EXCEPT
                                        !.access_keys = splice(@, index_for_access_key)]
                        name_for_access_key == name_or_requester(username, requester)
                    IN IF ~validate_account_schema(written)
                       THEN [none EXCEPT !.code = SchemaError]
                       ELSE [code |-> OK,
                             path |-> _get_account_config_path(name_for_access_key),
                             account |-> written]

delete_access_key(requesting_account, username, access_key_id) ==
    LET p == delete_access_key_prepare(accounts, symlinks, requesting_account, username,
                                       access_key_id)
    IN IF p.code # OK THEN Thrown(p.code)
       ELSE Returned(update_config_file(accounts, p.path, p.account),
                     fs_unlink(symlinks, access_key_id),
                     _clean_account_cache(p.account))

\* _list_access_keys_from_account: one member per entry of access_keys, in the
\* order of the array
_list_access_keys_from_account(account) ==
    [ i \in DOMAIN account.access_keys |->
        LET access_key == account.access_keys[i]
        IN [ username |-> account.name,
             access_key |-> access_key.access_key,
             status |-> IF access_key.status # UNDEF THEN access_key.status
                        ELSE access_key_status_enum.ACTIVE,
             create_date |-> IF access_key.creation_date # UNDEF
                             THEN access_key.creation_date
                             ELSE account.creation_date ] ]

\* members.sort((a, b) => a.access_key.localeCompare(b.access_key))
list_access_keys_members(requested_account) ==
    SortSeq(_list_access_keys_from_account(requested_account),
            LAMBDA a, b : localeCompare(a.access_key, b.access_key) < 0)

list_access_keys(requesting_account, username) ==
    LET requester == _check_root_account_or_user(requesting_account, username).requester
        name_for_access_key == name_or_requester(username, requester)
    IN IF ~_check_if_requesting_account_is_root_account_or_user_om_himself(
                requesting_account, username)
       THEN Thrown(_throw_access_denied_error)
       ELSE IF ~_check_if_account_config_file_exists(accounts, name_for_access_key)
       THEN Thrown(ThrowIamError("NoSuchEntity"))
       ELSE LET requested_account == accounts[_get_account_config_path(name_for_access_key)]
            IN IF ~_check_if_requested_account_same_as_requesting_account(
                        requesting_account, requested_account)
               THEN Thrown(_throw_access_denied_error)
               ELSE LET members == list_access_keys_members(requested_account)
                    IN [ Returned(accounts, symlinks, {})
                         EXCEPT !.ret = [ NoReply EXCEPT !.members = members,
                                                         !.is_truncated = FALSE,
                                                         !.username = name_for_access_key ] ]

\* ---------------------------------------------------------------- actions
\* the accounts a session can present as requesting_account: the records the
\* store holds
Requesters == { accounts[n] : n \in DOMAIN accounts }

Who(requesting_account) ==
    [ _id |-> requesting_account._id, name |-> requesting_account.name,
      owner |-> requesting_account.owner ]

\* a call has been made, the (ops + 1)-th event of at most `bound`: its outcome
\* becomes the state
CallWithin(bound, op, requesting_account, username, arg, access_key_id, res) ==
    /\ last.op = "none"
    /\ ops < bound
    /\ ops' = ops + 1
    /\ last_rename' = IF op = "update_user" /\ res.code = OK /\ arg \notin {UNDEF, username}
                      THEN [ from |-> username, to |-> arg,
                             record |-> accounts[username], at |-> ops + 1 ]
                      ELSE last_rename
    /\ accounts' = res.accounts
    /\ symlinks' = res.symlinks
    /\ last' = [ op |-> op, req |-> Who(requesting_account), username |-> username,
                 arg |-> arg, access_key |-> access_key_id,
                 code |-> res.code, inv |-> res.inv, ret |-> res.ret ]
    /\ all_ok' = (all_ok /\ res.code = OK)
    /\ UNCHANGED procs

Call(op, requesting_account, username, arg, access_key_id, res) ==
    CallWithin(MaxOps, op, requesting_account, username, arg, access_key_id, res)

OptNames == Names \cup {UNDEF}

CreateUser ==
    \E r \in Requesters, u \in OptNames, p \in IamPaths :
        /\ next_id <= MaxId
        /\ LET res == create_user(r, u, p)
           IN /\ Call("create_user", r, u, p, UNDEF, res)
              /\ next_id' = IF res.code = OK THEN next_id + 1 ELSE next_id
        /\ UNCHANGED active_mk

GetUser ==
    \E r \in Requesters, u \in OptNames :
        /\ Call("get_user", r, u, UNDEF, UNDEF, get_user(r, u))
        /\ UNCHANGED <<next_id, active_mk>>

UpdateUser ==
    \E r \in Requesters, u \in Names, nu \in OptNames, p \in IamPaths :
        /\ Call("update_user", r, u, nu, UNDEF, update_user(r, u, nu, p))
        /\ UNCHANGED <<next_id, active_mk>>

DeleteUser ==
    \E r \in Requesters, u \in Names :
        /\ Call("delete_user", r, u, UNDEF, UNDEF, delete_user(r, u))
        /\ UNCHANGED <<next_id, active_mk>>

ListUsers ==
    \E r \in Requesters, prefix \in IamPathPrefixes :
        /\ Call("list_users", r, UNDEF, prefix, UNDEF, list_users(r, prefix))
        /\ UNCHANGED <<next_id, active_mk>>

CreateAccessKey ==
    \E r \in Requesters, u \in OptNames, k \in Keys :
        /\ Call("create_access_key", r, u, UNDEF, k, create_access_key(r, u, k))
        /\ UNCHANGED <<next_id, active_mk>>

GetAccessKeyLastUsed ==
    \E r \in Requesters, k \in Keys :
        /\ Call("get_access_key_last_used", r, UNDEF, UNDEF, k,
                get_access_key_last_used(r, k))
        /\ UNCHANGED <<next_id, active_mk>>

UpdateAccessKey ==
    \E r \in Requesters, u \in OptNames, k \in Keys, st \in Statuses :
        /\ Call("update_access_key", r, u, st, k, update_access_key(r, u, k, st))
        /\ UNCHANGED <<next_id, active_mk>>

DeleteAccessKey ==
    \E r \in Requesters, u \in OptNames, k \in Keys :
        /\ Call("delete_access_key", r, u, UNDEF, k, delete_access_key(r, u, k))
        /\ UNCHANGED <<next_id, active_mk>>

ListAccessKeys ==
    \E r \in Requesters, u \in OptNames :
        /\ Call("list_access_keys", r, u, UNDEF, UNDEF, list_access_keys(r, u))
        /\ UNCHANGED <<next_id, active_mk>>

\* the master-key manager activates a new master key
RotateMasterKey ==
    /\ last.op = "none"
    /\ ops < MaxOps
    /\ ops' = ops + 1
    /\ active_mk' = active_mk + 1
    /\ UNCHANGED <<accounts, symlinks, next_id, last, all_ok, last_rename, procs>>

\* update_access_key and update_user with a new username, as in UpdateAccessKey
\* and UpdateUser, in behaviours of up to MaxRenameOps calls
SetKeyStatus ==
    \E r \in Requesters, u \in OptNames, k \in Keys, st \in Statuses :
        /\ CallWithin(MaxRenameOps, "update_access_key", r, u, st, k,
                      update_access_key(r, u, k, st))
        /\ UNCHANGED <<next_id, active_mk>>

RenameUser ==
    \E r \in Requesters, u \in Names, nu \in Names, p \in IamPaths :
        /\ CallWithin(MaxRenameOps, "update_user", r, u, nu, UNDEF,
                      update_user(r, u, nu, p))
        /\ UNCHANGED <<next_id, active_mk>>

NoRename ==
    [ from |-> UNDEF, to |-> UNDEF, record |-> RootAccount("r1", UNDEF), at |-> 0 ]

NoCall ==
    [ op |-> "none", req |-> [_id |-> UNDEF, name |-> UNDEF, owner |-> UNDEF],
      username |-> UNDEF, arg |-> UNDEF, access_key |-> UNDEF, code |-> OK, inv |-> {},
      ret |-> NoReply ]

\* ------------------------------------------- concurrent create_access_key
\* Two requests run create_access_key at the same time. The handler yields at
\* every await, so each call is four steps: the existence check, the read with
\* the checks and the encryption that follow it, the write of the account
\* file, and the creation of the link.
Workers == {"w1", "w2"}

NotStarted ==
    [ pc |-> "idle", req |-> RootAccount("r1", UNDEF), username |-> UNDEF,
      access_key |-> UNDEF, path |-> UNDEF, account |-> RootAccount("r1", UNDEF),
      code |-> OK, wrote |-> FALSE, arg |-> UNDEF, iam_path |-> UNDEF ]

Step(w, proc) ==
    /\ procs' = [procs EXCEPT ![w] = proc]
    /\ UNCHANGED <<next_id, active_mk, last, all_ok, ops, last_rename>>

\* gate, then await _check_if_account_config_file_exists
CakStart(w) ==
    /\ procs[w].pc = "idle"
    /\ \E r \in Requesters, u \in OptNames, k \in Keys :
        LET gate == _check_root_account_or_user(r, u)
            call == [NotStarted EXCEPT !.req = r, !.username = u, !.access_key = k]
        IN IF ~_check_if_requesting_account_is_root_account_or_user_om_himself(r, u)
           THEN Step(w, [call EXCEPT !.pc = "done", !.code = _throw_access_denied_error])
           ELSE IF ~_check_if_account_config_file_exists(accounts,
                        name_or_requester(u, gate.requester))
           THEN Step(w, [call EXCEPT !.pc = "done", !.code = ThrowIamError("NoSuchEntity")])
           ELSE Step(w, [call EXCEPT !.pc = "read",
                    !.path = _get_account_config_path(name_or_requester(u, gate.requester))])
    /\ UNCHANGED <<accounts, symlinks>>

\* await read_file, the ownership and quota checks, await _encrypt_secret_key
CakRead(w) ==
    /\ procs[w].pc = "read"
    /\ LET c == procs[w]
           p == create_access_key_prepare(accounts, c.req, c.username, c.access_key)
       IN IF ~is_path_exists(accounts, c.path)
          THEN Step(w, [c EXCEPT !.pc = "done", !.code = "ENOENT"])
          ELSE IF p.code # OK
          THEN Step(w, [c EXCEPT !.pc = "done", !.code = p.code])
          ELSE Step(w, [c EXCEPT !.pc = "write", !.account = p.account])
    /\ UNCHANGED <<accounts, symlinks>>

\* a create_access_key that makes the link before it writes the account file
CakLinkBeforeWrite(w) ==
    /\ procs[w].pc = "write"
    /\ symlinks' = fs_symlink(symlinks, procs[w].account.name, procs[w].access_key)
    /\ Step(w, [procs[w] EXCEPT !.pc = "link"])
    /\ UNCHANGED accounts

\* a create_access_key whose write keeps the entries the file gained since the
\* call read it
CakWriteMerging(w) ==
    /\ procs[w].pc = "write"
    /\ LET mine == procs[w].account
           gained == IF is_path_exists(accounts, procs[w].path)
                     THEN SelectSeq(accounts[procs[w].path].access_keys,
                                    LAMBDA e : ~\E i \in DOMAIN mine.access_keys :
                                        mine.access_keys[i].access_key = e.access_key)
                     ELSE << >>
       IN accounts' = update_config_file(accounts, procs[w].path,
                          [mine EXCEPT !.access_keys = @ \o gained])
    /\ Step(w, [procs[w] EXCEPT !.pc = "link", !.wrote = TRUE])
    /\ UNCHANGED symlinks

\* await update_config_file; from here on the call has written the account file
CakWrite(w) ==
    /\ procs[w].pc = "write"
    /\ accounts' = update_config_file(accounts, procs[w].path, procs[w].account)
    /\ Step(w, [procs[w] EXCEPT !.pc = "link", !.wrote = TRUE])
    /\ UNCHANGED symlinks

\* await symlink, then return
CakLink(w) ==
    /\ procs[w].pc = "link"
    /\ LET res == create_access_key_link(accounts, symlinks, procs[w].account,
                                         procs[w].access_key)
       IN /\ symlinks' = res.symlinks
          /\ Step(w, [procs[w] EXCEPT !.pc = "done", !.code = res.code])
    /\ UNCHANGED accounts

\* ------------------------------------------------ delete_access_key, stepwise
\* gate, then await _check_if_account_exists_by_access_key_symlink
DakStart(w) ==
    /\ procs[w].pc = "idle"
    /\ \E r \in Requesters, u \in OptNames, k \in Keys :
        LET call == [NotStarted EXCEPT !.req = r, !.username = u, !.access_key = k]
        IN IF \/ ~_check_if_requesting_account_is_root_account_or_user_om_himself(r, u)
              \/ ~_check_if_account_exists_by_access_key_symlink(accounts, symlinks, k)
           THEN Step(w, [call EXCEPT !.pc = "done", !.code = _throw_access_denied_error])
           ELSE Step(w, [call EXCEPT !.pc = "resolve"])
    /\ UNCHANGED <<accounts, symlinks>>

\* await get_config_data through the symlink, the same-root check, the splice
\* and the validation
DakRead(w) ==
    /\ procs[w].pc = "resolve"
    /\ LET c == procs[w]
           p == delete_access_key_prepare(accounts, symlinks, c.req, c.username,
                                          c.access_key)
       IN IF ~is_symlink_path_exists(accounts, symlinks, c.access_key)
          THEN Step(w, [c EXCEPT !.pc = "done", !.code = "ENOENT"])
          ELSE IF p.code # OK
          THEN Step(w, [c EXCEPT !.pc = "done", !.code = p.code])
          ELSE Step(w, [c EXCEPT !.pc = "rewrite", !.path = p.path, !.account = p.account])
    /\ UNCHANGED <<accounts, symlinks>>

\* await update_config_file
DakWrite(w) ==
    /\ procs[w].pc = "rewrite"
    /\ accounts' = update_config_file(accounts, procs[w].path, procs[w].account)
    /\ Step(w, [procs[w] EXCEPT !.pc = "unlink", !.wrote = TRUE])
    /\ UNCHANGED symlinks

\* await fs.unlink, then _clean_account_cache and return; ENOENT when the link
\* is gone
DakUnlink(w) ==
    /\ procs[w].pc = "unlink"
    /\ IF procs[w].access_key \in DOMAIN symlinks
       THEN /\ symlinks' = fs_unlink(symlinks, procs[w].access_key)
            /\ Step(w, [procs[w] EXCEPT !.pc = "done"])
       ELSE /\ symlinks' = symlinks
            /\ Step(w, [procs[w] EXCEPT !.pc = "done", !.code = "ENOENT"])
    /\ UNCHANGED accounts

StartDelete == \E w \in Workers : DakStart(w)
ResolveKey == \E w \in Workers : DakRead(w)
RewriteAccount == \E w \in Workers : DakWrite(w)
UnlinkKey == \E w \in Workers : DakUnlink(w)

\* ------------------------------------------------------ update_user, stepwise
\* the call stops where it is: the process crashed at an await
Crash(w) ==
    /\ procs[w].pc \notin {"idle", "done", "crashed"}
    /\ Step(w, [procs[w] EXCEPT !.pc = "crashed"])
    /\ UNCHANGED <<accounts, symlinks>>

\* gate, then await _check_if_account_config_file_exists
UuStart(w) ==
    /\ procs[w].pc = "idle"
    /\ \E r \in Requesters, u \in Names, nu \in OptNames, p \in IamPaths :
        LET call == [NotStarted EXCEPT !.req = r, !.username = u, !.arg = nu,
                                       !.iam_path = p,
                                       !.path = _get_account_config_path(u)]
        IN IF ~_check_if_requesting_account_is_root_account(r)
           THEN Step(w, [call EXCEPT !.pc = "done", !.code = _throw_access_denied_error])
           ELSE IF ~_check_if_account_config_file_exists(accounts, u)
           THEN Step(w, [call EXCEPT !.pc = "done", !.code = ThrowIamError("NoSuchEntity")])
           ELSE Step(w, [call EXCEPT !.pc = "uu_read"])
    /\ UNCHANGED <<accounts, symlinks>>

\* await read_file, the root and ownership checks, the new iam_path; without
\* a new username the validation as well
UuRead(w) ==
    /\ procs[w].pc = "uu_read"
    /\ LET c == procs[w]
       IN IF ~is_path_exists(accounts, c.path)
          THEN Step(w, [c EXCEPT !.pc = "done", !.code = "ENOENT"])
          ELSE LET read == accounts[c.path]
                   account_to_update ==
                       IF c.iam_path # UNDEF THEN [read EXCEPT !.iam_path = c.iam_path]
                       ELSE read
                   is_username_update == c.arg # UNDEF /\ c.arg # c.username
               IN IF ~_check_if_requested_account_is_root_account(read)
                  THEN Step(w, [c EXCEPT !.pc = "done", !.code = _throw_access_denied_error])
                  ELSE IF ~_check_if_user_is_owned_by_root_account(c.req, read)
                  THEN Step(w, [c EXCEPT !.pc = "done",
                                         !.code = ThrowIamError("NoSuchEntity")])
                  ELSE IF is_username_update
                  THEN Step(w, [c EXCEPT !.pc = "uu_check", !.account = account_to_update])
                  ELSE IF ~validate_account_schema(account_to_update)
                  THEN Step(w, [c EXCEPT !.pc = "done", !.code = SchemaError])
                  ELSE Step(w, [c EXCEPT !.pc = "uu_update", !.account = account_to_update])
    /\ UNCHANGED <<accounts, symlinks>>

\* _update_account_config_new_username: await _check_username_already_exists,
\* the new name and email, the validation
UuCheck(w) ==
    /\ procs[w].pc = "uu_check"
    /\ LET c == procs[w]
           renamed == [c.account EXCEPT !.name = c.arg, !.email = c.arg]
       IN IF ~_check_username_already_exists(accounts, c.arg)
          THEN Step(w, [c EXCEPT !.pc = "done", !.code = ThrowIamError("EntityAlreadyExists")])
          ELSE IF ~validate_account_schema(renamed)
          THEN Step(w, [c EXCEPT !.pc = "done", !.code = SchemaError])
          ELSE Step(w, [c EXCEPT !.pc = "uu_create", !.account = renamed])
    /\ UNCHANGED <<accounts, symlinks>>

\* an _update_account_config_new_username that deletes the old file first
UuDeleteBeforeCreate(w) ==
    /\ procs[w].pc = "uu_create"
    /\ accounts' = delete_config_file(accounts, procs[w].path)
    /\ Step(w, [procs[w] EXCEPT !.pc = "uu_delete"])
    /\ UNCHANGED symlinks

\* await create_config_file under the new username
UuCreate(w) ==
    /\ procs[w].pc = "uu_create"
    /\ accounts' = create_config_file(accounts, _get_account_config_path(procs[w].arg),
                                      procs[w].account)
    /\ Step(w, [procs[w] EXCEPT !.pc = "uu_delete", !.wrote = TRUE])
    /\ UNCHANGED symlinks

\* await delete_config_file of the old username, then _clean_account_cache and
\* return
UuDelete(w) ==
    /\ procs[w].pc = "uu_delete"
    /\ accounts' = delete_config_file(accounts, procs[w].path)
    /\ Step(w, [procs[w] EXCEPT !.pc = "done"])
    /\ UNCHANGED symlinks

\* without a new username: await update_config_file, then _clean_account_cache
\* and return
UuUpdate(w) ==
    /\ procs[w].pc = "uu_update"
    /\ accounts' = update_config_file(accounts, procs[w].path, procs[w].account)
    /\ Step(w, [procs[w] EXCEPT !.pc = "done", !.wrote = TRUE])
    /\ UNCHANGED symlinks

\* the worker of a specification in which one call runs alone
\* ------------------------------------------------------ delete_user, stepwise
\* gate, then await _check_if_account_config_file_exists
DuStart(w) ==
    /\ procs[w].pc = "idle"
    /\ \E r \in Requesters, u \in Names :
        LET call == [NotStarted EXCEPT !.req = r, !.username = u,
                                       !.path = _get_account_config_path(u)]
        IN IF ~_check_if_requesting_account_is_root_account(r)
           THEN Step(w, [call EXCEPT !.pc = "done", !.code = _throw_access_denied_error])
           ELSE IF ~_check_if_account_config_file_exists(accounts, u)
           THEN Step(w, [call EXCEPT !.pc = "done", !.code = ThrowIamError("NoSuchEntity")])
           ELSE Step(w, [call EXCEPT !.pc = "du_read"])
    /\ UNCHANGED <<accounts, symlinks>>

\* await read_file, then the root, ownership and no-access-keys checks
DuRead(w) ==
    /\ procs[w].pc = "du_read"
    /\ LET c == procs[w]
       IN IF ~is_path_exists(accounts, c.path)
          THEN Step(w, [c EXCEPT !.pc = "done", !.code = "ENOENT"])
          ELSE LET account_to_delete == accounts[c.path]
               IN IF ~_check_if_requested_account_is_root_account(account_to_delete)
                  THEN Step(w, [c EXCEPT !.pc = "done", !.code = _throw_access_denied_error])
                  ELSE IF ~_check_if_user_is_owned_by_root_account(c.req, account_to_delete)
                  THEN Step(w, [c EXCEPT !.pc = "done",
                                         !.code = ThrowIamError("NoSuchEntity")])
                  ELSE IF ~_check_if_user_does_not_have_access_keys_before_deletion(
                               account_to_delete)
                  THEN Step(w, [c EXCEPT !.pc = "done",
                                         !.code = ThrowIamError("DeleteConflict")])
                  ELSE Step(w, [c EXCEPT !.pc = "du_delete", !.account = account_to_delete])
    /\ UNCHANGED <<accounts, symlinks>>

\* await delete_config_file, then return
DuDelete(w) ==
    /\ procs[w].pc = "du_delete"
    /\ IF ~is_path_exists(accounts, procs[w].path)
       THEN /\ Step(w, [procs[w] EXCEPT !.pc = "done", !.code = "ENOENT"])
            /\ UNCHANGED accounts
       ELSE /\ accounts' = delete_config_file(accounts, procs[w].path)
            /\ Step(w, [procs[w] EXCEPT !.pc = "done", !.wrote = TRUE])
    /\ UNCHANGED symlinks

Solo == "w1"

StartUpdateUser == UuStart(Solo)
ReadUser == UuRead(Solo)
CheckNewUsername == UuCheck(Solo)
CreateNewFile == UuCreate(Solo)
DeleteOldFile == UuDelete(Solo)
UpdateFile == UuUpdate(Solo)
CrashAtAwait == Crash(Solo)

StartCall == \E w \in Workers : CakStart(w)
ReadAccount == \E w \in Workers : CakRead(w)
WriteAccount == \E w \in Workers : CakWrite(w)
LinkKey == \E w \in Workers : CakLink(w)

\* the caller takes the reply of the call it made
TakeReply ==
    /\ last.op # "none"
    /\ last' = NoCall
    /\ UNCHANGED <<accounts, symlinks, next_id, active_mk, all_ok, ops, last_rename, procs>>

\* An IAM user as create_user by root `root` followed by create_access_key by
\* the same root leaves it: one Active key made by the root account.
InitialUser(root) ==
    [ _id |-> Ids[3], name |-> "u1", email |-> "u1",
      creation_date |-> BootstrapDate,
      owner |-> RootId(root), creator |-> RootId(root), iam_path |-> IAM_DEFAULT_PATH,
      master_key_id |-> MasterKeys[1],
      allow_bucket_creation |-> TRUE, force_md5_etag |-> UNDEF,
      access_keys |-> << [ access_key |-> "k3",
                           encrypted_secret_key |-> mkm_encrypt(SecretOf("k3"), MasterKeys[1]),
                           creation_date |-> BootstrapDate,
                           status |-> access_key_status_enum.ACTIVE,
                           creator_identity |-> identity_enum.ROOT_ACCOUNT,
                           master_key_id |-> MasterKeys[1] ] >>,
      nsfs_account_config |-> RootNsfsConfig(root) ]

\* The two root accounts as the bootstrap writes them, each with one access
\* key and its link. Both encodings of "root" occur: r1 has no owner, r2 has
\* itself as owner.
RootsOnly == [ n \in RootNames |-> RootAccount(n, IF n = "r2" THEN RootId("r2") ELSE UNDEF) ]
RootLinks == [ k \in {RootKey("r1"), RootKey("r2")} |-> IF k = RootKey("r1") THEN "r1" ELSE "r2" ]

\* The configuration root the store is constructed over: as the bootstrap
\* left it, or as an earlier run left it after one root created user u1 and
\* one access key for it.
Init ==
    /\ \/ /\ accounts = RootsOnly
          /\ symlinks = RootLinks
          /\ next_id = 3
       \/ \E root \in RootNames :
          /\ accounts = WriteFile(RootsOnly, "u1", InitialUser(root))
          /\ symlinks = fs_symlink(RootLinks, "u1", "k3")
          /\ next_id = 4
    /\ active_mk = 1
    /\ last = NoCall
    /\ all_ok = TRUE
    /\ ops = 0
    /\ last_rename = NoRename
    /\ procs = [w \in Workers |-> NotStarted]

Next ==
    \/ CreateUser
    \/ GetUser
    \/ UpdateUser
    \/ DeleteUser
    \/ ListUsers
    \/ CreateAccessKey
    \/ GetAccessKeyLastUsed
    \/ UpdateAccessKey
    \/ DeleteAccessKey
    \/ ListAccessKeys
    \/ RotateMasterKey
    \/ TakeReply

Spec == Init /\ [][Next]_vars

NextConc ==
    \/ StartCall
    \/ ReadAccount
    \/ WriteAccount
    \/ LinkKey

\* create_access_key calls of two workers, interleaved at their awaits
SpecConc == Init /\ [][NextConc]_vars

NextRename ==
    \/ SetKeyStatus
    \/ RenameUser
    \/ TakeReply

NextSteps ==
    \/ StartCall
    \/ ReadAccount
    \/ WriteAccount
    \/ LinkKey
    \/ StartDelete
    \/ ResolveKey
    \/ RewriteAccount
    \/ UnlinkKey

\* create_access_key and delete_access_key calls of two workers, interleaved
\* at their awaits
SpecSteps == Init /\ [][NextSteps]_vars

\* the stepwise call of worker Solo has not started
SoloIdle == procs[Solo].pc = "idle"

\* the stepwise call of worker Solo crashed after it wrote the account file
SoloAborted == procs[Solo].pc = "crashed" /\ procs[Solo].wrote

SoloStartCreate == last.op = "none" /\ CakStart(Solo)
SoloStartDelete == last.op = "none" /\ DakStart(Solo)
CreateAccessKeyBefore == SoloIdle /\ CreateAccessKey
UpdateAccessKeyAfter == SoloAborted /\ UpdateAccessKey
DeleteAccessKeyAfter == SoloAborted /\ DeleteAccessKey
GetAccessKeyLastUsedAfter == SoloAborted /\ GetAccessKeyLastUsed

NextAborted ==
    \/ SoloStartCreate
    \/ CakRead(Solo)
    \/ CakWrite(Solo)
    \/ CakLink(Solo)
    \/ SoloStartDelete
    \/ DakRead(Solo)
    \/ DakWrite(Solo)
    \/ DakUnlink(Solo)
    \/ CrashAtAwait
    \/ CreateAccessKeyBefore
    \/ UpdateAccessKeyAfter
    \/ DeleteAccessKeyAfter
    \/ GetAccessKeyLastUsedAfter
    \/ TakeReply

\* one create_access_key or delete_access_key call that runs one await at a
\* time and may crash at any of them, after create_access_key calls that ran
\* to their end; once it has crashed between its account-file step and its
\* symlink step, calls on access keys follow
SpecAborted == Init /\ [][NextAborted]_vars

\* the worker that runs delete_user and the worker that runs create_access_key
Remover == "w1"
Creator == "w2"

CreateUserFirst == (\A w \in Workers : procs[w].pc = "idle") /\ CreateUser
RemoverStart == last.op = "none" /\ DuStart(Remover)
RemoverRead == DuRead(Remover)
RemoverDelete == DuDelete(Remover)
CreatorStart == last.op = "none" /\ CakStart(Creator)
CreatorRead == CakRead(Creator)
CreatorWrite == CakWrite(Creator)
CreatorLink == CakLink(Creator)

NextDeleteUser ==
    \/ CreateUserFirst
    \/ TakeReply
    \/ RemoverStart
    \/ RemoverRead
    \/ RemoverDelete
    \/ CreatorStart
    \/ CreatorRead
    \/ CreatorWrite
    \/ CreatorLink

\* after create_user calls that ran to their end, one delete_user call and one
\* create_access_key call, interleaved at their awaits
SpecDeleteUser == Init /\ [][NextDeleteUser]_vars

NextUpdateUser ==
    \/ StartUpdateUser
    \/ ReadUser
    \/ CheckNewUsername
    \/ CreateNewFile
    \/ DeleteOldFile
    \/ UpdateFile
    \/ CrashAtAwait

\* one update_user call, one await at a time, that may crash at any of them
SpecUpdateUser == Init /\ [][NextUpdateUser]_vars

\* sequences of update_access_key and update_user calls
SpecRename == Init /\ [][NextRename]_vars

\* ================================================================= claims
ListsKey(account, k) ==
    \E i \in DOMAIN account.access_keys : account.access_keys[i].access_key = k

\* owner absent or equal to the id: the record is a root account
IsRootRecord(a) == a.owner = UNDEF \/ a.owner = a._id

\* the id of the root an account is under
RootIdOf(a) == IF a.owner # UNDEF THEN a.owner ELSE a._id

UserOps == {"create_user", "get_user", "update_user", "delete_user", "list_users"}
KeyWriteOps == {"create_access_key", "update_access_key", "delete_access_key"}

\* C1 (I2): after any sequence of successful operations, every access key
\* listed in an account has its link access_keys/<key>.symlink, and the link
\* points at the file of that account.
C1_EveryKeyHasItsLink ==
    all_ok =>
        \A n \in DOMAIN accounts : \A i \in DOMAIN accounts[n].access_keys :
            LET k == accounts[n].access_keys[i].access_key
            IN k \in DOMAIN symlinks /\ symlinks[k] = n

\* C2 (I3): after any sequence of successful operations, every link points at
\* an existing account file that lists the link's key.
C2_EveryLinkResolves ==
    all_ok =>
        \A k \in DOMAIN symlinks :
            /\ symlinks[k] \in DOMAIN accounts
            /\ ListsKey(accounts[symlinks[k]], k)

\* C3 (I1): after any sequence of successful operations, the record stored in
\* accounts/<name>.json has name = <name>.
C3_FileNameIsStoredName ==
    all_ok => \A n \in DOMAIN accounts : accounts[n].name = n

\* C4 (I4): in every reachable state, also while two create_access_key calls
\* on the same account are interleaved, no account file carries more than two
\* access keys.
C4_AtMostTwoKeys ==
    \A n \in DOMAIN accounts : Len(accounts[n].access_keys) <= 2

\* Both workers returned a key for the same account, each having read the
\* account before the other wrote it, and the account holds two keys.
C4_Witness ==
    /\ procs["w1"].pc = "done" /\ procs["w2"].pc = "done"
    /\ procs["w1"].code = OK /\ procs["w2"].code = OK
    /\ procs["w1"].path = procs["w2"].path
    /\ procs["w1"].access_key # procs["w2"].access_key
    /\ Len(procs["w1"].account.access_keys) = 2
    /\ Len(procs["w2"].account.access_keys) = 2
    /\ Len(accounts[procs["w1"].path].access_keys) = 2

\* C5 (I6): whatever identifier the credential generator returns, no key id is
\* listed by two accounts, and no account lists a key id whose link resolves
\* to another account.
C5_KeyIdsUnique ==
    \A n \in DOMAIN accounts : \A k \in Keys :
        ListsKey(accounts[n], k) =>
            /\ \A m \in DOMAIN accounts :
                  ListsKey(accounts[m], k) => accounts[m]._id = accounts[n]._id
            /\ (k \in DOMAIN symlinks /\ symlinks[k] \in DOMAIN accounts)
                  => accounts[symlinks[k]]._id = accounts[n]._id

\* C6: a User requester runs update_access_key or delete_access_key with
\* success only on a key its own account lists; on a key of another account
\* of the same root the call yields AccessDeniedException and changes no
\* account file and no link.
C6_UserActsOnOwnKeysOnly ==
    [][ ( /\ last.op = "none"
          /\ last'.op \in {"update_access_key", "delete_access_key"}
          /\ ~IsRootRecord(last'.req) )
        =>
        ( /\ last'.code = OK =>
                \E n \in DOMAIN accounts :
                    /\ accounts[n]._id = last'.req._id
                    /\ ListsKey(accounts[n], last'.access_key)
          /\ ( \E n \in DOMAIN accounts :
                    /\ accounts[n]._id # last'.req._id
                    /\ RootIdOf(accounts[n]) = RootIdOf(last'.req)
                    /\ ListsKey(accounts[n], last'.access_key) )
             => ( /\ last'.code = "AccessDeniedException"
                  /\ accounts' = accounts
                  /\ symlinks' = symlinks ) )
      ]_vars

\* the name create_access_key acts on: username, or the requester's own name
C7_Target(call) == IF call.username # UNDEF THEN call.username ELSE call.req.name

\* C7: no create_access_key, update_access_key or delete_access_key call
\* changes the record of a root account or removes the link of a root
\* account's key, and every call aimed at a root account yields
\* AccessDeniedException.
C7_RootAccountsReadOnly ==
    [][ ( last.op = "none" /\ last'.op \in KeyWriteOps )
        =>
        ( /\ \A n \in DOMAIN accounts :
                IsRootRecord(accounts[n]) =>
                    n \in DOMAIN accounts' /\ accounts'[n] = accounts[n]
          /\ \A k \in DOMAIN symlinks :
                (symlinks[k] \in DOMAIN accounts /\ IsRootRecord(accounts[symlinks[k]]))
                    => k \in DOMAIN symlinks'
          /\ ( /\ last'.op = "create_access_key"
               /\ C7_Target(last') \in DOMAIN accounts
               /\ IsRootRecord(accounts[C7_Target(last')]) )
             => last'.code = "AccessDeniedException"
          /\ ( /\ last'.op # "create_access_key"
               /\ last'.access_key \in DOMAIN symlinks
               /\ symlinks[last'.access_key] \in DOMAIN accounts
               /\ IsRootRecord(accounts[symlinks[last'.access_key]]) )
             => last'.code = "AccessDeniedException" )
      ]_vars

\* C8: create_user, get_user, update_user, delete_user and list_users called
\* by a requester that is not a root account fail with AccessDeniedException.
C8_UserOpsNeedRoot ==
    (last.op \in UserOps /\ ~IsRootRecord(last.req))
        => last.code = "AccessDeniedException"

\* C9: the four access-key operations that take a username, called by a User
\* requester with a username other than its own, yield AccessDeniedException.
C9_UserOnOtherUsername ==
    ( /\ last.op \in KeyWriteOps \cup {"list_access_keys"}
      /\ ~IsRootRecord(last.req)
      /\ last.username # UNDEF
      /\ last.username # last.req.name )
        => last.code = "AccessDeniedException"

C10_Ops == {"get_user", "update_user", "delete_user", "create_access_key"}

\* the call was made by a root requester and names an existing IAM user whose
\* owner is another root
C10_ForeignUser(call) ==
    /\ call.op \in C10_Ops
    /\ IsRootRecord(call.req)
    /\ call.username \in DOMAIN accounts
    /\ ~IsRootRecord(accounts[call.username])
    /\ accounts[call.username].owner # call.req._id

\* C10: a root requester calling get_user, update_user, delete_user or
\* create_access_key on an existing IAM user whose owner is another root gets
\* NoSuchEntity, the same as when no account file has that name, and nothing
\* in the store changes.
C10_ForeignUserIsNoSuchEntity ==
    [][ ( last.op = "none" /\ last'.op \in C10_Ops /\ IsRootRecord(last'.req) )
        =>
        ( /\ C10_ForeignUser(last')
             => ( /\ last'.code = "NoSuchEntity"
                  /\ accounts' = accounts
                  /\ symlinks' = symlinks )
          /\ (last'.username \in Names /\ last'.username \notin DOMAIN accounts)
             => last'.code = "NoSuchEntity" )
      ]_vars

\* a root has just been refused, with NoSuchEntity, on a user of another root
\* that is still in the store
C10_Witness ==
    /\ C10_ForeignUser(last)
    /\ last.code = "NoSuchEntity"

C11_KeyOps == {"update_access_key", "delete_access_key", "get_access_key_last_used"}

\* the call left the account files and the links as they were
StoreUnchanged == accounts' = accounts /\ symlinks' = symlinks

\* C11: update_access_key, delete_access_key and get_access_key_last_used on
\* a key whose link resolves to an account under another root than the
\* requester's, and list_access_keys for a username under another root, yield
\* AccessDeniedException and change nothing.
C11_OtherRootIsDenied ==
    [][ last.op = "none" =>
        ( /\ ( /\ last'.op \in C11_KeyOps
               /\ last'.access_key \in DOMAIN symlinks
               /\ symlinks[last'.access_key] \in DOMAIN accounts
               /\ RootIdOf(accounts[symlinks[last'.access_key]]) # RootIdOf(last'.req) )
             => (last'.code = "AccessDeniedException" /\ StoreUnchanged)
          /\ ( /\ last'.op = "list_access_keys"
               /\ last'.username \in DOMAIN accounts
               /\ RootIdOf(accounts[last'.username]) # RootIdOf(last'.req) )
             => (last'.code = "AccessDeniedException" /\ StoreUnchanged) )
      ]_vars

\* C12: update_access_key, delete_access_key and get_access_key_last_used
\* given a key id whose link is missing, or whose link points at a missing
\* account file, yield AccessDeniedException for every requester.
C12_UnknownKeyIsDenied ==
    [][ ( /\ last.op = "none"
          /\ last'.op \in C11_KeyOps
          /\ \/ last'.access_key \notin DOMAIN symlinks
             \/ symlinks[last'.access_key] \notin DOMAIN accounts )
        => last'.code = "AccessDeniedException"
      ]_vars

\* C13: get_user, update_user and delete_user by a root requester, naming a
\* target whose record is itself a root account, yield AccessDeniedException
\* and leave the record and its file as they were.
C13_RootTargetIsDenied ==
    [][ ( /\ last.op = "none"
          /\ last'.op \in {"get_user", "update_user", "delete_user"}
          /\ IsRootRecord(last'.req)
          /\ C7_Target(last') \in DOMAIN accounts
          /\ IsRootRecord(accounts[C7_Target(last')]) )
        => (last'.code = "AccessDeniedException" /\ StoreUnchanged)
      ]_vars

\* the requester passes create_access_key's checks on the account named by
\* the call: a root that owns it, or a user acting on itself
C14_MayCreateKey(call) ==
    /\ call.op = "create_access_key"
    /\ C7_Target(call) \in DOMAIN accounts
    /\ IF IsRootRecord(call.req)
       THEN accounts[C7_Target(call)].owner = call.req._id
       ELSE call.username \in {UNDEF, call.req.name}

\* C14: create_access_key on an account that already has two access keys
\* fails with the LimitExceeded error kind, whose code differs from
\* EntityAlreadyExists, creates no link and leaves the account file unchanged.
C14_QuotaIsLimitExceeded ==
    [][ ( /\ last.op = "none"
          /\ C14_MayCreateKey(last')
          /\ Len(accounts[C7_Target(last')].access_keys) = 2 )
        => ( /\ last'.code = "LimitExceeded"
             /\ last'.code # "EntityAlreadyExists"
             /\ StoreUnchanged )
      ]_vars

\* delete_user by a root on an IAM user it owns
C15_OwnedUser(call) ==
    /\ call.op = "delete_user"
    /\ IsRootRecord(call.req)
    /\ call.username \in DOMAIN accounts
    /\ ~IsRootRecord(accounts[call.username])
    /\ accounts[call.username].owner = call.req._id

\* C15: delete_user on an owned IAM user succeeds exactly when the user has
\* no access keys, and then the account file is gone; with one or more keys
\* it yields DeleteConflict and the account file stays as it was.
C15_DeleteNeedsNoKeys ==
    [][ (last.op = "none" /\ C15_OwnedUser(last'))
        =>
        IF Len(accounts[last'.username].access_keys) = 0
        THEN /\ last'.code = OK
             /\ last'.username \notin DOMAIN accounts'
        ELSE /\ last'.code = "DeleteConflict"
             /\ last'.username \in DOMAIN accounts'
             /\ accounts'[last'.username] = accounts[last'.username]
      ]_vars

\* a delete_user has succeeded and the user's file is gone
C15_Witness ==
    /\ last.op = "delete_user"
    /\ last.code = OK
    /\ IsRootRecord(last.req)
    /\ last.username \notin DOMAIN accounts

\* C16: create_user by a root with a username for which an account file
\* exists, whoever owns it, yields EntityAlreadyExists and changes nothing.
C16_ExistingNameIsRefused ==
    [][ ( /\ last.op = "none"
          /\ last'.op = "create_user"
          /\ IsRootRecord(last'.req)
          /\ last'.username \in DOMAIN accounts )
        => (last'.code = "EntityAlreadyExists" /\ StoreUnchanged)
      ]_vars

\* a root has been refused a username held by a user of another root
C16_Witness ==
    /\ last.op = "create_user"
    /\ last.code = "EntityAlreadyExists"
    /\ IsRootRecord(last.req)
    /\ last.username \in DOMAIN accounts
    /\ ~IsRootRecord(accounts[last.username])
    /\ accounts[last.username].owner # last.req._id

\* the call was an update_user that returned and asked for another username
C17_Renamed(call) ==
    /\ call.op = "update_user"
    /\ call.code = OK
    /\ call.arg # UNDEF
    /\ call.arg # call.username

\* C17: after a successful update_user(username = A, new_username = B) with
\* B other than A, accounts/A.json is gone, accounts/B.json holds A's former
\* record with name and email B and the same id, owner, creation date and
\* access keys, and get_user(B) by the owning root succeeds.
C17_RenameMovesTheRecord ==
    [][ (last.op = "none" /\ C17_Renamed(last'))
        =>
        ( /\ last'.username \in DOMAIN accounts
          /\ last'.username \notin DOMAIN accounts'
          /\ last'.arg \in DOMAIN accounts'
          /\ accounts'[last'.arg].name = last'.arg
          /\ accounts'[last'.arg].email = last'.arg
          /\ accounts'[last'.arg]._id = accounts[last'.username]._id
          /\ accounts'[last'.arg].owner = accounts[last'.username].owner
          /\ accounts'[last'.arg].creation_date = accounts[last'.username].creation_date
          /\ accounts'[last'.arg].access_keys = accounts[last'.username].access_keys
          /\ (get_user(last.req, last.arg).code = OK)' )
      ]_vars

\* a user holding an access key has been renamed
C17_Witness ==
    /\ C17_Renamed(last)
    /\ last.username \notin DOMAIN accounts
    /\ last.arg \in DOMAIN accounts
    /\ accounts[last.arg].name = last.arg
    /\ Len(accounts[last.arg].access_keys) > 0

\* update_user by a root on an IAM user it owns, asking for a username that
\* another account file already has
C18_RenameOntoExisting(call) ==
    /\ call.op = "update_user"
    /\ IsRootRecord(call.req)
    /\ call.username \in DOMAIN accounts
    /\ ~IsRootRecord(accounts[call.username])
    /\ accounts[call.username].owner = call.req._id
    /\ call.arg # UNDEF
    /\ call.arg # call.username
    /\ call.arg \in DOMAIN accounts

\* C18: update_user with a new_username for which an account file exists
\* yields EntityAlreadyExists and leaves the user's file and the file under
\* the new name as they were.
C18_RenameOntoExistingIsRefused ==
    [][ (last.op = "none" /\ C18_RenameOntoExisting(last'))
        =>
        ( /\ last'.code = "EntityAlreadyExists"
          /\ DOMAIN accounts' = DOMAIN accounts
          /\ accounts'[last'.username] = accounts[last'.username]
          /\ accounts'[last'.arg] = accounts[last'.arg]
          /\ symlinks' = symlinks )
      ]_vars

\* a rename onto a taken name has been refused; both files are there
C18_Witness ==
    /\ C18_RenameOntoExisting(last)
    /\ last.code = "EntityAlreadyExists"

\* the same record, iam_path aside
C19_SameUpToIamPath(a, b) ==
    [a EXCEPT !.iam_path = UNDEF] = [b EXCEPT !.iam_path = UNDEF]

\* C19: update_user(name = A, new_username = B) followed by
\* update_user(name = B, new_username = A) leaves an account file A equal to
\* the one before the two calls, iam_path aside, and no file B.
C19_RenameRoundTrip ==
    [][ ( /\ last.op = "none"
          /\ C17_Renamed(last')
          /\ last_rename.to # UNDEF
          /\ last_rename.at = ops
          /\ last'.username = last_rename.to
          /\ last'.arg = last_rename.from )
        =>
        ( /\ last_rename.from \in DOMAIN accounts'
          /\ last_rename.to \notin DOMAIN accounts'
          /\ C19_SameUpToIamPath(accounts'[last_rename.from], last_rename.record) )
      ]_vars

\* the entry of key k in the account its link resolves to (the first one, as
\* a lookup by key id finds it)
C20_Entry(k) ==
    LET keys == accounts[symlinks[k]].access_keys
        hits == { i \in DOMAIN keys : keys[i].access_key = k }
    IN keys[CHOOSE i \in hits : \A j \in hits : i <= j]

\* update_access_key, by a requester allowed to act on the key, with the
\* status the key already has
C20_SameStatus(call) ==
    /\ call.op = "update_access_key"
    /\ IsRootRecord(call.req) \/ call.username \in {UNDEF, call.req.name}
    /\ call.access_key \in DOMAIN symlinks
    /\ symlinks[call.access_key] \in DOMAIN accounts
    /\ RootIdOf(accounts[symlinks[call.access_key]]) = RootIdOf(call.req)
    /\ ListsKey(accounts[symlinks[call.access_key]], call.access_key)
    /\ C20_Entry(call.access_key).status = call.arg

C21_DeleteRemovesOnlyTheKey ==
    [][ ( /\ last.op = "none"
          /\ last'.op = "delete_access_key"
          /\ last'.code = OK
          /\ last'.access_key \in DOMAIN symlinks
          /\ symlinks[last'.access_key] \in DOMAIN accounts )
        => LET k == last'.access_key
               carrier == symlinks[k]
           IN /\ k \notin DOMAIN symlinks'
              /\ carrier \in DOMAIN accounts'
              /\ ~ListsKey(accounts'[carrier], k)
              /\ \A i \in DOMAIN accounts[carrier].access_keys :
                    LET other == accounts[carrier].access_keys[i].access_key
                    IN other # k =>
                        /\ ListsKey(accounts'[carrier], other)
                        /\ (other \in DOMAIN symlinks => other \in DOMAIN symlinks')
      ]_vars

\* the status an access-key entry has: Active when the entry records none
C22_StatusOf(entry) ==
    IF entry.status # UNDEF THEN entry.status ELSE access_key_status_enum.ACTIVE

\* members lists the entries of account, one member each, ascending by key
C22_ListsExactly(members, account) ==
    /\ Len(members) = Len(account.access_keys)
    /\ \A i \in DOMAIN account.access_keys :
          \E j \in DOMAIN members :
             /\ members[j].access_key = account.access_keys[i].access_key
             /\ members[j].status = C22_StatusOf(account.access_keys[i])
    /\ \A j \in DOMAIN members :
          \E i \in DOMAIN account.access_keys :
             /\ members[j].access_key = account.access_keys[i].access_key
             /\ members[j].status = C22_StatusOf(account.access_keys[i])
    /\ \A i, j \in DOMAIN members :
          i < j => localeCompare(members[i].access_key, members[j].access_key) <= 0

\* what a successful list_access_keys(U) returns as members, given the store
C22_Listing(accs, U) == list_access_keys_members(accs[U])

\* C22: list_access_keys(U) returns one member per access key of U's account,
\* ascending by access_key, each with its current status; after a successful
\* update_access_key(k, status) that changes the status, the listing of the
\* account carrying k reports k with the new status and is otherwise as
\* before; after an update to the status k already has, the listing is
\* unchanged.
C22_ListingFollowsTheAccount ==
    [][ last.op = "none" =>
        /\ ( /\ last'.op = "list_access_keys"
             /\ last'.code = OK )
           => /\ last'.ret.username \in DOMAIN accounts
              /\ C22_ListsExactly(last'.ret.members, accounts[last'.ret.username])
        /\ ( /\ last'.op = "update_access_key"
             /\ last'.code = OK
             /\ last'.access_key \in DOMAIN symlinks
             /\ symlinks[last'.access_key] \in DOMAIN accounts )
           => LET k == last'.access_key
                  U == symlinks[k]
                  before == C22_Listing(accounts, U)
              IN /\ U \in DOMAIN accounts'
                 /\ LET after == C22_Listing(accounts', U)
                    IN /\ Len(after) = Len(before)
                       /\ \A i \in DOMAIN before :
                            /\ after[i].access_key = before[i].access_key
                            /\ after[i].status =
                                  IF before[i].access_key = k THEN last'.arg
                                  ELSE before[i].status
      ]_vars

\* account n of the store is one list_users(prefix) by the requester is to
\* return: its owner is the requester's id and, when a prefix other than the
\* default was passed, its iam_path starts with the prefix
C23_Expected(n, requester_id, prefix) ==
    /\ accounts[n].owner = requester_id
    /\ (prefix # UNDEF /\ prefix # IAM_DEFAULT_PATH) =>
          /\ accounts[n].iam_path # UNDEF
          /\ startsWith(accounts[n].iam_path, prefix)

\* C23: a successful list_users by a root requester returns exactly the
\* accounts whose owner is the requester's id, restricted to those whose
\* iam_path starts with iam_path_prefix when a prefix other than the default
\* was passed, ascending by username, with is_truncated = false; a prefix no
\* user matches yields no members.
C23_ListUsersReturnsOwnedUsers ==
    [][ ( /\ last.op = "none"
          /\ last'.op = "list_users"
          /\ last'.code = OK )
        => LET members == last'.ret.members
               expected == { n \in DOMAIN accounts :
                               C23_Expected(n, last'.req._id, last'.arg) }
           IN /\ last'.req.owner \in {UNDEF, last'.req._id}
              /\ Len(members) = Cardinality(expected)
              /\ \A n \in expected :
                    \E j \in DOMAIN members :
                       /\ members[j].user_id = accounts[n]._id
                       /\ members[j].username = accounts[n].name
              /\ \A j \in DOMAIN members :
                    \E n \in expected :
                       /\ members[j].user_id = accounts[n]._id
                       /\ members[j].username = accounts[n].name
              /\ \A i, j \in DOMAIN members :
                    i < j => localeCompare(members[i].username, members[j].username) <= 0
              /\ last'.ret.is_truncated = FALSE
              /\ (expected = {} => members = << >>)
      ]_vars

\* a root listed its users under a prefix: one owned user is under it and is
\* returned, another owned user is not under it and is left out
C23_Witness ==
    /\ last.op = "list_users"
    /\ last.code = OK
    /\ last.arg \notin {UNDEF, IAM_DEFAULT_PATH}
    /\ Len(last.ret.members) = 1
    /\ \E n \in DOMAIN accounts :
          /\ accounts[n].owner = last.req._id
          /\ accounts[n].iam_path = IAM_DEFAULT_PATH

\* the operations C24 names
C24_Ops == {"update_user", "create_access_key", "update_access_key", "delete_access_key"}

\* C24: after every successful update_user, create_access_key, status-changing
\* update_access_key and delete_access_key, cache.invalidate(k) has been called
\* for every access key k now on the account the operation changed.
C24_ChangedAccountIsInvalidated ==
    [][ ( /\ last.op = "none"
          /\ last'.op \in C24_Ops
          /\ last'.code = OK )
        => \A n \in DOMAIN accounts' :
              (n \notin DOMAIN accounts \/ accounts'[n] # accounts[n])
              => \A i \in DOMAIN accounts'[n].access_keys :
                    accounts'[n].access_keys[i].access_key \in last'.inv
      ]_vars

\* the stored value is a ciphertext: something encrypted under a master key
C25_IsCiphertext(value) ==
    \E i \in DOMAIN MasterKeys : value.mk = MasterKeys[i]

\* C25: in every reachable state no account file holds a plaintext secret key:
\* every access-key entry on disk has no secret_key member and carries its
\* secret only as encrypted_secret_key, a ciphertext under a master key, also
\* in files rewritten by update_access_key, delete_access_key and update_user;
\* the generated secret itself is in the return value of create_access_key.
C25_NoPlaintextSecretOnDisk ==
    /\ \A n \in DOMAIN accounts :
          \A i \in DOMAIN accounts[n].access_keys :
             LET entry == accounts[n].access_keys[i]
             IN /\ "secret_key" \notin DOMAIN entry
                /\ "encrypted_secret_key" \in DOMAIN entry
                /\ C25_IsCiphertext(entry.encrypted_secret_key)
    /\ (last.op = "create_access_key" /\ last.code = OK)
          => last.ret.secret_key = SecretOf(last.access_key)

\* update_access_key has just rewritten, with a new status, a file that lists
\* a key made by create_access_key
C25_Witness ==
    /\ last.op = "update_access_key"
    /\ last.code = OK
    /\ last.inv # {}
    /\ \E n \in DOMAIN accounts :
          \E i \in DOMAIN accounts[n].access_keys :
             /\ accounts[n].access_keys[i].creation_date \notin {UNDEF, BootstrapDate}
             /\ accounts[n].access_keys[i].status = last.arg
             /\ accounts[n].access_keys[i].access_key = last.access_key

C26_WritingOps ==
    {"create_user", "update_user", "create_access_key", "update_access_key",
     "delete_access_key"}

\* the members account_schema requires are there
C26_Conforms(account) ==
    /\ account._id # UNDEF /\ account.name # UNDEF /\ account.email # UNDEF
    /\ account.creation_date # UNDEF /\ account.master_key_id # UNDEF
    /\ account.allow_bucket_creation \in BOOLEAN
    /\ \A i \in DOMAIN account.access_keys :
          account.access_keys[i].access_key # UNDEF

\* C26: create_user, update_user, create_access_key, update_access_key and
\* delete_access_key validate the record against the account schema before
\* they change the filesystem: no file they write or leave behind fails the
\* schema, a call whose record fails it (create_user without a username)
\* fails with ValidationError, and a call that fails with ValidationError has
\* created, changed and removed no account file and no symlink.
C26_ValidationPrecedesWrites ==
    [][ ( /\ last.op = "none"
          /\ last'.op \in C26_WritingOps )
        => /\ \A n \in DOMAIN accounts' :
                 (n \notin DOMAIN accounts \/ accounts'[n] # accounts[n])
                 => C26_Conforms(accounts'[n])
           /\ ( /\ last'.op = "create_user"
                /\ last'.username = UNDEF
                /\ last'.req.owner \in {UNDEF, last'.req._id}
                /\ UNDEF \notin DOMAIN accounts )
              => last'.code = IamError.ValidationError
           /\ last'.code = IamError.ValidationError => StoreUnchanged
      ]_vars

\* create_user was called without a username and failed validation
C26_Witness ==
    /\ last.op = "create_user"
    /\ last.username = UNDEF
    /\ last.code = IamError.ValidationError

\* C27: a successful create_user(username, iam_path?) by root R creates
\* accounts/<username>.json with name = email = username, owner = creator =
\* R's id, no access keys, iam_path the requested path or "/", and
\* master_key_id, allow_bucket_creation, force_md5_etag and
\* nsfs_account_config as R has them; no other file changes and no symlink is
\* created.
C27_CreateUserWritesOneFile ==
    [][ ( /\ last.op = "none"
          /\ last'.op = "create_user"
          /\ last'.code = OK )
        => LET username == last'.username
           IN /\ username \notin DOMAIN accounts
              /\ DOMAIN accounts' = DOMAIN accounts \cup {username}
              /\ \A n \in DOMAIN accounts : accounts'[n] = accounts[n]
              /\ symlinks' = symlinks
              /\ \E R \in Requesters :
                    LET created == accounts'[username]
                    IN /\ Who(R) = last'.req
                       /\ _check_root_account(R)
                       /\ created.name = username
                       /\ created.email = username
                       /\ created.owner = R._id
                       /\ created.creator = R._id
                       /\ created.access_keys = << >>
                       /\ created.iam_path = IF last'.arg # UNDEF THEN last'.arg
                                             ELSE IAM_DEFAULT_PATH
                       /\ created.master_key_id = R.master_key_id
                       /\ created.allow_bucket_creation = R.allow_bucket_creation
                       /\ created.force_md5_etag = R.force_md5_etag
                       /\ created.nsfs_account_config = R.nsfs_account_config
      ]_vars

\* the root with a distinguished name has created a user under a path, after
\* the master key was rotated
C27_Witness ==
    /\ last.op = "create_user"
    /\ last.code = OK
    /\ last.arg = "/div/"
    /\ active_mk > 1
    /\ last.username \in DOMAIN accounts
    /\ accounts[last.username].nsfs_account_config.distinguished_name # UNDEF
    /\ accounts[last.username].iam_path = "/div/"

\* C28: a successful create_access_key adds exactly one entry to the target
\* account (the requester's own when username is omitted), at the first empty
\* slot, with status Active and creator_identity RootAccount for a root
\* requester and User otherwise, and sets the entry's and the account's
\* master_key_id to the active master key; the entries the account had are
\* unchanged.
C28_CreateAccessKeyAddsOneEntry ==
    [][ ( /\ last.op = "none"
          /\ last'.op = "create_access_key"
          /\ last'.code = OK )
        => LET target == IF last'.username # UNDEF THEN last'.username
                         ELSE last'.req.name
           IN /\ target \in DOMAIN accounts
              /\ target \in DOMAIN accounts'
              /\ LET before == accounts[target].access_keys
                     after == accounts'[target].access_keys
                     slot == IF Len(before) = 0 THEN 1 ELSE 2
                 IN /\ Len(after) = Len(before) + 1
                    /\ slot = Len(after)
                    /\ \A i \in DOMAIN before : after[i] = before[i]
                    /\ after[slot].access_key = last'.access_key
                    /\ after[slot].status = access_key_status_enum.ACTIVE
                    /\ after[slot].creator_identity =
                          IF last'.req.owner \in {UNDEF, last'.req._id}
                          THEN identity_enum.ROOT_ACCOUNT
                          ELSE identity_enum.USER
                    /\ after[slot].master_key_id = active_master_key(active_mk)
                    /\ accounts'[target].master_key_id = active_master_key(active_mk)
                    /\ active_mk' = active_mk
      ]_vars

\* a user has created a second key for itself, with username omitted, after
\* the master key was rotated
C28_Witness ==
    /\ last.op = "create_access_key"
    /\ last.code = OK
    /\ last.username = UNDEF
    /\ last.req.owner \notin {UNDEF, last.req._id}
    /\ active_mk > 1
    /\ last.req.name \in DOMAIN accounts
    /\ Len(accounts[last.req.name].access_keys) = 2
    /\ accounts[last.req.name].access_keys[2].creator_identity = identity_enum.USER

\* C29: within one operation the account-file write precedes the change of
\* the index: a symlink access_keys/<k>.symlink is created only by a step of a
\* call that has completed its update of the account file with a record
\* listing k, and is unlinked only by a step of a call that has completed its
\* update of the account file; the update itself changes no symlink.
C29_WriteBeforeIndexChange ==
    [][ /\ \A k \in Keys :
              /\ (k \notin DOMAIN symlinks /\ k \in DOMAIN symlinks')
                 => \E w \in Workers :
                       /\ procs'[w] # procs[w]
                       /\ procs[w].wrote
                       /\ procs[w].access_key = k
                       /\ ListsKey(procs[w].account, k)
              /\ (k \in DOMAIN symlinks /\ k \notin DOMAIN symlinks')
                 => \E w \in Workers :
                       /\ procs'[w] # procs[w]
                       /\ procs[w].wrote
                       /\ procs[w].access_key = k
        /\ \A w \in Workers :
              (~procs[w].wrote /\ procs'[w].wrote)
              => /\ procs[w].path \in DOMAIN accounts'
                 /\ accounts'[procs[w].path] = procs[w].account
                 /\ symlinks' = symlinks
      ]_vars

\* one worker has created a key and another has deleted one: both wrote the
\* account file, the created key has its link, the deleted key has none
C29_Witness ==
    \E w, v \in Workers :
        /\ procs[w].pc = "done" /\ procs[w].code = OK /\ procs[w].wrote
        /\ procs[v].pc = "done" /\ procs[v].code = OK /\ procs[v].wrote
        /\ ListsKey(procs[w].account, procs[w].access_key)
        /\ procs[w].access_key \in DOMAIN symlinks
        /\ ~ListsKey(procs[v].account, procs[v].access_key)
        /\ procs[v].access_key \notin DOMAIN symlinks

\* the entry of key k in account, when it lists k
C30_Entry(account, k) ==
    account.access_keys[CHOOSE i \in DOMAIN account.access_keys :
                            account.access_keys[i].access_key = k]

\* C30: a successful status-changing update_access_key of a key whose stored
\* ciphertext decrypts, under the master_key_id recorded for it, to the secret
\* create_access_key returned, leaves in the file it writes an entry whose
\* master_key_id and whose account's master_key_id are the active master key
\* and whose ciphertext decrypts under that master_key_id to the same secret,
\* also when the master key was rotated after the key was created.
C30_ReencryptKeepsTheSecret ==
    [][ ( /\ last.op = "none"
          /\ last'.op = "update_access_key"
          /\ last'.code = OK
          /\ last'.inv # {}
          /\ last'.access_key \in DOMAIN symlinks
          /\ symlinks[last'.access_key] \in DOMAIN accounts
          /\ ListsKey(accounts[symlinks[last'.access_key]], last'.access_key)
          /\ LET e == C30_Entry(accounts[symlinks[last'.access_key]], last'.access_key)
             IN /\ e.master_key_id # UNDEF
                /\ mkm_decrypt(e.encrypted_secret_key, e.master_key_id)
                      = SecretOf(last'.access_key) )
        => LET k == last'.access_key
               written == IF last'.username # UNDEF THEN last'.username
                          ELSE last'.req.name
           IN /\ written \in DOMAIN accounts'
              /\ ListsKey(accounts'[written], k)
              /\ LET e == C30_Entry(accounts'[written], k)
                 IN /\ e.master_key_id = active_master_key(active_mk)
                    /\ accounts'[written].master_key_id = active_master_key(active_mk)
                    /\ e.status = last'.arg
                    /\ mkm_decrypt(e.encrypted_secret_key, e.master_key_id) = SecretOf(k)
      ]_vars

\* the call of worker w is a rename: it has a new username
C31_Renaming(w) ==
    /\ procs[w].pc \in {"uu_check", "uu_create", "uu_delete", "crashed", "done"}
    /\ procs[w].arg \notin {UNDEF, procs[w].username}

\* C31: during an update_user rename from A to B, accounts/B.json is created
\* before accounts/A.json is deleted: the step that removes A is taken when B
\* already holds the renamed record, the step that creates B leaves A in
\* place, and so in every intermediate state, also after a crash between the
\* two steps, at least one of the two files exists.
C31_NewFileBeforeOldIsDeleted ==
    [][ \A w \in Workers :
          C31_Renaming(w) =>
             LET A == procs[w].username
                 B == procs[w].arg
             IN /\ (A \in DOMAIN accounts /\ A \notin DOMAIN accounts')
                   => /\ B \in DOMAIN accounts
                      /\ accounts[B] = procs[w].account
                      /\ B \in DOMAIN accounts'
                /\ (B \notin DOMAIN accounts /\ B \in DOMAIN accounts')
                   => /\ A \in DOMAIN accounts'
                      /\ accounts'[B] = procs[w].account
                /\ (A \in DOMAIN accounts' \/ B \in DOMAIN accounts')
      ]_vars

\* the call crashed after it created the new file and before it deleted the
\* old one: both files are there
C31_Witness ==
    \E w \in Workers :
        /\ procs[w].pc = "crashed"
        /\ procs[w].wrote
        /\ procs[w].arg \notin {UNDEF, procs[w].username}
        /\ procs[w].username \in DOMAIN accounts
        /\ procs[w].arg \in DOMAIN accounts

\* the codes of the IAM error kinds, and that of a call that returned
C32_IamCodes == { IamError[m] : m \in DOMAIN IamError } \cup {OK}

\* a create_access_key or delete_access_key for key k stopped between its
\* account-file step and its symlink step
C32_AbortedOn(k) ==
    \E w \in Workers :
        /\ procs[w].pc = "crashed"
        /\ procs[w].wrote
        /\ procs[w].access_key = k

\* C32: after a create_access_key or delete_access_key for key k was aborted
\* between its account-file step and its symlink step, update_access_key,
\* delete_access_key and get_access_key_last_used on k yield
\* AccessDeniedException when k's symlink is missing or dangling, no later call
\* on k fails with an error that is not an IAM error, and none changes or
\* removes an entry of another key.
C32_AbortedStateIsTolerated ==
    [][ ( /\ last.op = "none"
          /\ last'.op \in {"update_access_key", "delete_access_key",
                           "get_access_key_last_used"}
          /\ C32_AbortedOn(last'.access_key) )
        => LET k == last'.access_key
           IN /\ ~is_symlink_path_exists(accounts, symlinks, k)
                    => last'.code = IamError.AccessDeniedException
              /\ last'.code \in C32_IamCodes
              /\ \A n \in DOMAIN accounts :
                    \A i \in DOMAIN accounts[n].access_keys :
                       accounts[n].access_keys[i].access_key # k
                       => /\ n \in DOMAIN accounts'
                          /\ \E j \in DOMAIN accounts'[n].access_keys :
                                accounts'[n].access_keys[j] = accounts[n].access_keys[i]
      ]_vars

\* create_access_key calls of workers w and v returned different keys for the
\* same account file, each having read the file before the other wrote it
C33_BothReturned(w, v) ==
    /\ w # v
    /\ procs[w].pc = "done" /\ procs[v].pc = "done"
    /\ procs[w].code = OK /\ procs[v].code = OK
    /\ procs[w].path = procs[v].path
    /\ procs[w].access_key # procs[v].access_key
    /\ ~ListsKey(procs[w].account, procs[v].access_key)
    /\ ~ListsKey(procs[v].account, procs[w].access_key)

\* C33: two concurrent create_access_key calls on the same account file that
\* both read it before either wrote race on the final write and the loser's
\* write is dropped: both return success, both symlinks exist and point at the
\* account, and the file is the record of one writer alone, so it lists one
\* of the two returned keys and not the other.
C33_LoserWriteIsDropped ==
    \A w, v \in Workers :
        C33_BothReturned(w, v) =>
            LET file == accounts[procs[w].path]
                kw == procs[w].access_key
                kv == procs[v].access_key
            IN /\ file \in {procs[w].account, procs[v].account}
               /\ ListsKey(file, kw) # ListsKey(file, kv)
               /\ kw \in DOMAIN symlinks /\ symlinks[kw] = procs[w].account.name
               /\ kv \in DOMAIN symlinks /\ symlinks[kv] = procs[v].account.name

\* both calls returned success and the file lacks the key the first writer
\* returned, whose symlink exists
C33_Witness ==
    /\ C33_BothReturned("w1", "w2")
    /\ accounts[procs["w1"].path] = procs["w2"].account
    /\ ~ListsKey(accounts[procs["w1"].path], procs["w1"].access_key)
    /\ procs["w1"].access_key \in DOMAIN symlinks

\* C34: update_access_key and delete_access_key write only the account file
\* the key's symlink resolves to: the file of every other account, the
\* requester's own and that of the account the username parameter names
\* included, is left as it was, and no file appears.
C34_OnlyTheOwnersFileIsWritten ==
    [][ ( /\ last.op = "none"
          /\ last'.op \in {"update_access_key", "delete_access_key"}
          /\ last'.access_key \in DOMAIN symlinks
          /\ symlinks[last'.access_key] \in DOMAIN accounts )
        => /\ DOMAIN accounts' = DOMAIN accounts
           /\ \A n \in DOMAIN accounts \ {symlinks[last'.access_key]} :
                 accounts'[n] = accounts[n]
      ]_vars

\* the codes of the error kinds the gate and the guards raise
C35_GuardCodes ==
    { IamError.AccessDeniedException, IamError.NoSuchEntity, IamError.EntityAlreadyExists,
      IamError.LimitExceeded, IamError.DeleteConflict }

\* C35: a call that fails with an error kind the gate or a guard raises
\* (AccessDeniedException, NoSuchEntity, EntityAlreadyExists, LimitExceeded,
\* DeleteConflict) has changed no account file and no symlink and has
\* invalidated nothing in the cache.
C35_GuardFailureChangesNothing ==
    [][ ( /\ last.op = "none"
          /\ last'.op # "none"
          /\ last'.code \in C35_GuardCodes )
        => /\ StoreUnchanged
           /\ last'.inv = {}
      ]_vars

\* delete_user of a user that has an access key was refused, and the user's
\* file is there
C35_Witness ==
    /\ last.op = "delete_user"
    /\ last.code = IamError.DeleteConflict
    /\ last.username \in DOMAIN accounts
    /\ accounts[last.username].access_keys # << >>

\* C36: delete_access_key(k) removes from no account an access-key entry
\* whose id differs from k: every account file keeps every other key it
\* listed, also when k's symlink resolves to an account that does not list k.
C36_DeleteRemovesNoOtherKey ==
    [][ ( /\ last.op = "none"
          /\ last'.op = "delete_access_key" )
        => \A n \in DOMAIN accounts : \A other \in Keys \ {last'.access_key} :
               ListsKey(accounts[n], other)
               => /\ n \in DOMAIN accounts'
                  /\ ListsKey(accounts'[n], other)
      ]_vars

\* C37: after a successful delete_access_key(k) the cache has been told to
\* invalidate k itself.
C37_DeletedKeyIsInvalidated ==
    [][ ( /\ last.op = "none"
          /\ last'.op = "delete_access_key"
          /\ last'.code = OK )
        => last'.access_key \in last'.inv
      ]_vars

\* C38: list_users returns no root account: no member of the result is the
\* record of an account file classified as root (owner absent or equal to its
\* own id), the requester's own record included.
C38_ListUsersReturnsNoRoot ==
    [][ ( /\ last.op = "none"
          /\ last'.op = "list_users"
          /\ last'.code = OK )
        => \A j \in DOMAIN last'.ret.members :
              ~\E n \in DOMAIN accounts :
                  /\ accounts[n]._id = last'.ret.members[j].user_id
                  /\ accounts[n].name = last'.ret.members[j].username
                  /\ IsRootRecord(accounts[n])
      ]_vars

\* the symlink of key k exists and its target account file exists
C39_Resolves(accs, syms, k) == k \in DOMAIN syms /\ syms[k] \in DOMAIN accs

\* C39: once an access key has been created for the account with id X, its
\* symlink never resolves to an account with another id, after any sequence
\* of successful operations: a successful call leaves every key that resolved
\* before it resolving to an account of the same id, and a key of a user that
\* was renamed resolves, whenever it resolves, to the account of that user's
\* id, also after create_user under the old username.
C39_KeyResolvesToItsAccount ==
    [][ ( /\ last.op = "none"
          /\ last'.op # "none"
          /\ all_ok' )
        => \A k \in Keys :
              /\ (C39_Resolves(accounts, symlinks, k) /\ C39_Resolves(accounts', symlinks', k))
                    => accounts'[symlinks'[k]]._id = accounts[symlinks[k]]._id
              /\ ( /\ last_rename'.to # UNDEF
                   /\ ListsKey(last_rename'.record, k)
                   /\ C39_Resolves(accounts', symlinks', k) )
                    => accounts'[symlinks'[k]]._id = last_rename'.record._id
      ]_vars

\* the delete_user call and the create_access_key call have both completed,
\* and they were about the same user
C40_BothCompleted ==
    /\ procs[Remover].pc = "done"
    /\ procs[Creator].pc = "done"
    /\ procs[Remover].username =
          IF procs[Creator].username # UNDEF THEN procs[Creator].username
          ELSE procs[Creator].req.name

\* C40: in every interleaving of delete_user(U) with a concurrent
\* create_access_key(U), once both calls have completed every symlink of
\* access_keys/ has its target account file.
C40_NoDanglingSymlinkAfterBoth ==
    C40_BothCompleted => \A k \in DOMAIN symlinks : symlinks[k] \in DOMAIN accounts

====
